---- MODULE Spec2Model ----
(***************************************************************************)
(* Model of chirp's concurrent session pipeline: ApplicationController,    *)
(* App, AudioManager, TranscriptionManager, LLMManager and the EventBus.   *)
(*                                                                         *)
(* Threads: the Qt main thread (every EventBus handler runs there), the    *)
(* input listener thread, the audio control thread, and one transcription  *)
(* and one LLM worker thread per app.                                      *)
(*                                                                         *)
(* EventBus.emit is a Qt signal with the default (auto) connection: an     *)
(* emit made on the main thread calls _process_event at once, inside the   *)
(* emitting handler; an emit made on any other thread is posted to the     *)
(* main thread's event queue (mainQueue) and handled there later, in       *)
(* posting order.                                                          *)
(*                                                                         *)
(* Python's None is the string "None"; uuid4 strings are "s1", "s2", ...   *)
(***************************************************************************)
EXTENDS Naturals, Sequences, FiniteSets, TLC

(* ------------------------------ bounds -------------------------------- *)

\* shortcut activations (key events) in one run
MaxShortcuts == 2

\* shortcut_triggered events posted by the input thread and not yet handled
MaxPendingShortcuts == 1

\* frames one capture loop reads
MaxFrames == 8

\* recording_options.silence_duration of the configuration, in ms
SilenceDurationMs == 30

\* calls made on the workers in one run of the worker harness
MaxCalls == 4

\* key events in one run of the input model
MaxKeyEvents == 4

\* calls made on the audio manager in one run of the audio harness
MaxAudioCalls == 3

\* streaming chunk sizes of the audio harness, in samples
MaxChunkSize == 3

\* samples one stream.read returns in the audio harness's streaming captures
MaxStreamFrame == 2

\* events emitted in one run of the event bus model
MaxEmits == 4

(* --------------------------- configuration ---------------------------- *)

None == "None"

\* active apps, in the order load_active_apps constructs them
AppOrder == <<"a1", "a2">>

Apps == {AppOrder[i] : i \in 1..Len(AppOrder)}

\* recording_options.recording_mode of each app's configuration
ConfigRecordingMode(a) == IF a = "a1" THEN "HOLD_TO_RECORD" ELSE "CONTINUOUS"

\* App.recording_mode: set once in App.__init__, never from the configuration
recording_mode(a) == "PRESS_TO_TOGGLE"

UuidPool == <<"s1", "s2", "s3", "s4", "s5", "s6", "s7", "s8">>

\* str(uuid.uuid4()): a value never returned before
uuid4(n) == UuidPool[n + 1]

sample_rate == 16000

\* _calculate_frame_size, non-streaming: int(sample_rate * 0.03)
frame_size == (sample_rate * 3) \div 100

min_duration_ms == 200

\* int(0.15 * sample_rate / frame_size)
InitialFramesToSkip == (15 * sample_rate) \div (100 * frame_size)

\* frame_size / sample_rate * 1000
FrameMs == (frame_size * 1000) \div sample_rate

\* _prepare_audio_config: the audio_config of a recording of app a
silence_frames == SilenceDurationMs \div FrameMs

use_vad(a) == ConfigRecordingMode(a) \in {"VOICE_ACTIVITY_DETECTION", "CONTINUOUS"}

\* _prepare_audio_config: context.app.streaming_chunk_size or 4096
DefaultChunkSize == 4096

\* a _calculate_frame_size that tries the durations shortest first
StreamFrameSize_shortest_first(chunk_size) ==
    IF chunk_size % ((sample_rate * 10) \div 1000) = 0
    THEN (sample_rate * 10) \div 1000
    ELSE IF chunk_size % ((sample_rate * 20) \div 1000) = 0
    THEN (sample_rate * 20) \div 1000
    ELSE IF chunk_size % ((sample_rate * 30) \div 1000) = 0
    THEN (sample_rate * 30) \div 1000
    ELSE sample_rate \div 100

\* _calculate_frame_size for a streaming app: the longest of 30, 20 and 10 ms
\* that divides the chunk size, else 10 ms
StreamFrameSize(chunk_size) ==
    IF chunk_size % ((sample_rate * 30) \div 1000) = 0
    THEN (sample_rate * 30) \div 1000
    ELSE IF chunk_size % ((sample_rate * 20) \div 1000) = 0
    THEN (sample_rate * 20) \div 1000
    ELSE IF chunk_size % ((sample_rate * 10) \div 1000) = 0
    THEN (sample_rate * 10) \div 1000
    ELSE sample_rate \div 100

\* the keys of the model's keyboard
KeyCodes == {"CTRL_LEFT", "CTRL_RIGHT", "S", "CAPS_LOCK"}

\* parse_key_combination("CTRL+S"): a key group and a key. An entry is a
\* frozenset of KeyCodes (group) or one KeyCode.
ChordKeys ==
    <<[is_frozenset |-> TRUE, keys |-> {"CTRL_LEFT", "CTRL_RIGHT"}],
      [is_frozenset |-> FALSE, keys |-> {"S"}]>>

\* parse_key_combination("TAP:CAPS_LOCK>S")
primary_key == "CAPS_LOCK"
secondary_key == "S"

\* KeyChord.TAP_SEQUENCE_TIMEOUT, in tenths of a second
TAP_SEQUENCE_TIMEOUT == 5

\* sequence_start_time = None
NoTime == 0

(* ------------------------------- state --------------------------------- *)

VARIABLES
    app_state,              \* App.state
    app_session_id,         \* App.current_session_id
    audio_queue,            \* App.audio_queue
    inference_queue,        \* App.inference_queue
    output,                 \* what App.output handed to the output sink
    completed,              \* the session ids that inferencing_complete was
                            \* published with, in order
    session_app_map,        \* ApplicationController.session_app_map
    manually_stopped_apps,  \* ApplicationController.manually_stopped_apps
    uuid_count,             \* uuid4 values generated so far
    audio_state,            \* AudioManager.state
    recording_queue,        \* AudioManager.recording_queue
    audio_pc,               \* position of the audio control thread
    context,                \* the RecordingContext it holds
    capture,                \* locals of _capture_audio
    open_streams,           \* input streams opened and not yet closed
    tm_session_id,          \* TranscriptionManager.current_session_id
    transcribe_event,       \* TranscriptionManager.transcribe_event
    tm_stop_event,          \* TranscriptionManager.stop_event
    tm_pc,                  \* position of the transcription worker thread
    tm_item,                \* the audio chunk it holds
    llm_session_id,         \* LLMManager.current_session_id
    llm_event,              \* LLMManager.llm_event
    llm_stop_event,         \* LLMManager.stop_event
    llm_pc,                 \* position of the LLM worker thread
    llm_item,               \* the user message it holds
    mainQueue,              \* events posted to the main thread, oldest first
    chord_active,           \* per app: KeyChord.is_valid_chord() of its shortcut
    pressed_keys,           \* KeyChord.pressed_keys of the chord shortcut
    tap_state,              \* KeyChord.tap_state of the tap-sequence shortcut
    sequence_start_time,    \* KeyChord.sequence_start_time of that shortcut
    now,                    \* time.time(), in tenths of a second
    keys_down,              \* keys whose latest event was a press
    last_primary_press,     \* time of the latest press of the primary key
    event,                  \* the key event that on_input_event handled last
    streaming,              \* App.is_streaming
    streaming_chunk_size,   \* audio_config['streaming_chunk_size']
    stream_frame_size,      \* audio_config['frame_size'] of a streaming app
    published,              \* the event types emit was called with, in order
    queued_signals,         \* signal emissions queued for the main thread
    dispatch_stack,         \* the running _process_event calls, innermost last
    invoked,                \* the callbacks called so far, in order
    input_count,            \* inputs from outside so far: shortcut activations,
                            \* or the calls made on the workers
    listening,              \* ApplicationController.listening
    ctl_pc,                 \* where the main thread is in start_core_components
                            \* or cleanup; "idle" in the Qt event loop
    ctl_app,                \* the place in active_apps its loop has reached
    initialization_error,   \* start_core_components: initialization_error
    error_shown,            \* what show_settings_with_error was given
    keyboard_listener,      \* the input backend's listeners are running
    tm_thread,              \* TranscriptionManager.processing_thread is set
    llm_thread,             \* LLMManager.processing_thread is set
    transcription,          \* the text is_bad_transcription is called with
    bad_result,             \* what the call returned
    vad_is_speech,          \* what vad.is_speech returns for each frame of a
                            \* capture, were it asked
    completion_stream,      \* what backend.stream_completion yields
    llm_emitted,            \* result['assistant'] of each _emit_result call of
                            \* one streaming inference, in order
    output_mode,            \* App.output_mode
    result_handler,         \* StreamingResultHandler: buffer, full_message
    handled,                \* the texts handle_result was called with, in order
    delivered               \* what handle_result has put out, in order

appVars == <<app_state, app_session_id, inference_queue, output, completed>>
ctlVars == <<session_app_map, manually_stopped_apps, uuid_count>>
audioVars == <<audio_state, recording_queue, audio_pc, context, capture,
              open_streams>>
tmVars == <<tm_session_id, transcribe_event, tm_stop_event, tm_pc, tm_item>>
llmVars == <<llm_session_id, llm_event, llm_stop_event, llm_pc, llm_item>>

keyVars == <<pressed_keys, tap_state, sequence_start_time, now, keys_down,
            last_primary_press, event>>

\* the apps' streaming configuration
cfgVars == <<streaming, streaming_chunk_size, stream_frame_size>>

\* the event bus seen call by call
busVars == <<published, queued_signals, dispatch_stack, invoked>>

\* the controller starting and stopping the components
lifeVars == <<listening, ctl_pc, ctl_app, initialization_error, error_shown,
             keyboard_listener, tm_thread, llm_thread>>

\* a call of is_bad_transcription
textVars == <<transcription, bad_result>>

\* what the pipeline model leaves alone
streamVars == <<completion_stream, llm_emitted, output_mode, result_handler,
               handled, delivered>>
auxVars == <<keyVars, cfgVars, busVars, lifeVars, textVars, vad_is_speech,
            streamVars>>

inputVars == <<chord_active, input_count, auxVars>>

vars == <<appVars, audio_queue, ctlVars, audioVars, tmVars, llmVars, mainQueue,
          inputVars>>

\* App.is_streaming
is_streaming(a) == streaming[a]

(* ------------------------------ values --------------------------------- *)

\* an event as posted to the main thread; unused fields are None.
\*   shortcut_triggered(app, kind)          kind: press | release
\*   audio_discarded(session_id), recording_stopped(session_id)
\*   raw_transcription_result(result, session_id)
\*        kind: the result (good | bad | error), of: the chunk's session
\*   inferencing_result(result, session_id)
\*        kind: the result (text | empty), of: the session that enqueued it
\*   transcription_finished(app), inferencing_finished(app)
Event(type, app, sid, kind, of) ==
    [type |-> type, app |-> app, session_id |-> sid, kind |-> kind, of |-> of]

\* the None put on a queue
Sentinel ==
    [kind |-> None, app |-> None, session_id |-> None, text |-> None,
     audio_chunk |-> <<>>]

\* RecordingContext(app, session_id)
RecordingContext(a, sid) ==
    [kind |-> "context", app |-> a, session_id |-> sid, text |-> None,
     audio_chunk |-> <<>>]

\* the dict _push_audio_chunk puts on App.audio_queue; audio_chunk lists the
\* frames (of a streaming app: the samples) it holds, numbered from the
\* start of the capture
AudioChunk(a, sid, audio_data) ==
    [kind |-> "chunk", app |-> a, session_id |-> sid, text |-> None,
     audio_chunk |-> audio_data]

\* the user_message dict handle_raw_transcription builds; text names the
\* session whose audio was transcribed, session_id the session enqueuing it
UserMessage(a, sid, text) ==
    [kind |-> "message", app |-> a, session_id |-> sid, text |-> text,
     audio_chunk |-> <<>>]

NoCapture ==
    [recording |-> <<>>, frames_read |-> 0, initial_frames_to_skip |-> 0,
     silent_frame_count |-> 0, speech_detected |-> FALSE]

(* ------------------- main thread: the handlers' code ------------------- *)

\* The part of the state the main thread's handlers read and write.
MainState ==
    [app_state |-> app_state, app_session_id |-> app_session_id,
     inference_queue |-> inference_queue, output |-> output,
     completed |-> completed,
     session_app_map |-> session_app_map,
     manually_stopped_apps |-> manually_stopped_apps,
     uuid_count |-> uuid_count, recording_queue |-> recording_queue,
     tm_session_id |-> tm_session_id, transcribe_event |-> transcribe_event,
     tm_stop_event |-> tm_stop_event, llm_session_id |-> llm_session_id,
     llm_event |-> llm_event, llm_stop_event |-> llm_stop_event]

\* emit("inferencing_complete", old_sid) on the main thread: delivered at
\* once to the topic's subscribers, and nothing subscribes to this topic.
EmitInferencingComplete(s, old_sid) ==
    [s EXCEPT !.completed = Append(@, old_sid)]

\* App.finish_inferencing
finish_inferencing(s, a) ==
    LET previous_state == s.app_state[a]
        old_sid == s.app_session_id[a]
        t == [s EXCEPT !.app_state[a] = "IDLE", !.app_session_id[a] = None]
    IN IF previous_state \in {"INFERENCING", "RECORDING", "TRANSCRIBING"}
       THEN EmitInferencingComplete(t, old_sid)
       ELSE t

\* TranscriptionManager.start_transcription
TM_start_transcription(s, a, sid) ==
    [s EXCEPT !.tm_session_id[a] = sid,
              !.tm_stop_event[a] = FALSE,
              !.transcribe_event[a] = TRUE]

\* a start_inference that wakes the worker and leaves current_session_id
start_inference_without_session(s, a, sid) ==
    [s EXCEPT !.llm_stop_event[a] = FALSE,
              !.llm_event[a] = TRUE]

\* LLMManager.start_inference
start_inference(s, a, sid) ==
    [s EXCEPT !.llm_session_id[a] = sid,
              !.llm_stop_event[a] = FALSE,
              !.llm_event[a] = TRUE]

\* App.start_transcription
start_transcription(s, a, sid) ==
    TM_start_transcription(
        [s EXCEPT !.app_session_id[a] = sid, !.app_state[a] = "RECORDING"],
        a, sid)

\* App.recording_stopped
recording_stopped(s, a) ==
    IF s.app_state[a] = "RECORDING"
    THEN [s EXCEPT !.app_state[a] = "TRANSCRIBING"]
    ELSE s

\* AudioManager.is_recording
is_recording == audio_state = "RECORDING"

\* a start_recording that does not ask the audio manager whether it is
\* recording
start_recording_unasked(s, a) ==
    IF s.app_state[a] = "IDLE"
    THEN LET session_id == uuid4(s.uuid_count)
             t == [s EXCEPT
                     !.uuid_count = @ + 1,
                     !.session_app_map =
                         [k \in DOMAIN @ \cup {session_id} |->
                             IF k = session_id THEN a ELSE @[k]],
                     !.recording_queue =
                         Append(@, RecordingContext(a, session_id))]
             u == start_transcription(t, a, session_id)
         IN [u EXCEPT !.manually_stopped_apps = @ \ {a}]
    ELSE s

\* ApplicationController.start_recording
start_recording(s, a) ==
    IF s.app_state[a] = "IDLE" /\ ~is_recording
    THEN LET session_id == uuid4(s.uuid_count)
             t == [s EXCEPT
                     !.uuid_count = @ + 1,
                     !.session_app_map =
                         [k \in DOMAIN @ \cup {session_id} |->
                             IF k = session_id THEN a ELSE @[k]],
                     !.recording_queue =
                         Append(@, RecordingContext(a, session_id))]
             u == start_transcription(t, a, session_id)
         IN [u EXCEPT !.manually_stopped_apps = @ \ {a}]
    ELSE s

\* ApplicationController.stop_recording
stop_recording(s, a) ==
    IF s.app_state[a] = "RECORDING"
    THEN recording_stopped(
             [s EXCEPT !.recording_queue = Append(@, Sentinel)], a)
    ELSE s

\* ApplicationController._get_app_for_session: the app, or None
get_app_for_session(s, session_id) ==
    IF session_id \in DOMAIN s.session_app_map
    THEN IF s.session_app_map[session_id] \in Apps
         THEN s.session_app_map[session_id]
         ELSE None
    ELSE None

\* ApplicationController.handle_shortcut
handle_shortcut(s, app_name, event_type) ==
    IF app_name \notin Apps THEN s
    ELSE IF event_type = "press"
    THEN IF s.app_state[app_name] = "IDLE"                 \* should_start_on_press
         THEN start_recording(s, app_name)
         ELSE IF /\ s.app_state[app_name] = "RECORDING"    \* should_stop_on_press
                 /\ recording_mode(app_name) \in
                      {"PRESS_TO_TOGGLE", "CONTINUOUS", "VOICE_ACTIVITY_DETECTION"}
         THEN LET t == stop_recording(s, app_name)
              IN IF recording_mode(app_name) = "CONTINUOUS"
                 THEN [t EXCEPT !.manually_stopped_apps = @ \cup {app_name}]
                 ELSE t
         ELSE s
    ELSE IF event_type = "release"
    THEN IF /\ s.app_state[app_name] = "RECORDING"         \* should_stop_on_release
            /\ recording_mode(app_name) = "HOLD_TO_RECORD"
         THEN stop_recording(s, app_name)
         ELSE s
    ELSE s

\* ApplicationController.handle_recording_stopped
handle_recording_stopped(s, session_id) ==
    LET app == get_app_for_session(s, session_id)
    IN IF app # None THEN stop_recording(s, app) ELSE s

\* ApplicationController.handle_audio_discarded
handle_audio_discarded(s, session_id) ==
    LET app == get_app_for_session(s, session_id)
    IN IF app # None THEN finish_inferencing(s, app) ELSE s

\* ApplicationController.handle_transcription_complete, subscribed to
\* inferencing_finished and inferencing_skipped, whose argument is the
\* emitting app's name.
handle_transcription_complete(s, session_id) ==
    LET app == get_app_for_session(s, session_id)
    IN IF app # None
       THEN LET t == [s EXCEPT !.session_app_map =
                         [k \in DOMAIN @ \ {session_id} |-> @[k]]]
            IN IF /\ recording_mode(app) = "CONTINUOUS"
                  /\ app \notin t.manually_stopped_apps
               THEN start_recording(t, app)
               ELSE [t EXCEPT !.manually_stopped_apps = @ \ {app}]
       ELSE s

\* emit("inferencing_skipped", name) on the main thread: delivered at once
\* to its one subscriber, ApplicationController.handle_transcription_complete
EmitInferencingSkipped(s, name) == handle_transcription_complete(s, name)

\* App.output: an empty or None text is not output
App_output(s, a, ev) ==
    IF ev.kind = "empty" THEN s
    ELSE [s EXCEPT !.output[a] = Append(@, ev.of)]

\* App.handle_raw_transcription without the comparison of the event's
\* session id with current_session_id
handle_raw_transcription_any_session(s, a, ev) ==
    IF ev.kind \in {"error", "bad"}
    THEN EmitInferencingSkipped(finish_inferencing(s, a), a)
    ELSE LET t == [s EXCEPT
                     !.app_session_id[a] = ev.session_id,
                     !.app_state[a] = "INFERENCING",
                     !.inference_queue[a] =
                         @ \o <<UserMessage(a, ev.session_id, ev.of), Sentinel>>]
         IN start_inference(t, a, ev.session_id)

\* a handle_raw_transcription that skips inference for an error only
handle_raw_transcription_error_only(s, a, ev) ==
    IF ev.session_id # s.app_session_id[a] THEN s
    ELSE IF ev.kind = "error"
    THEN EmitInferencingSkipped(finish_inferencing(s, a), a)
    ELSE LET t == [s EXCEPT
                     !.app_session_id[a] = ev.session_id,
                     !.app_state[a] = "INFERENCING",
                     !.inference_queue[a] =
                         @ \o <<UserMessage(a, ev.session_id, ev.of), Sentinel>>]
         IN start_inference(t, a, ev.session_id)

\* App.handle_raw_transcription of app a, for the event ev
handle_raw_transcription(s, a, ev) ==
    IF ev.session_id # s.app_session_id[a] THEN s
    ELSE IF ev.kind = "error"
    THEN EmitInferencingSkipped(finish_inferencing(s, a), a)
    ELSE IF ev.kind = "bad"                                \* is_bad_transcription
    THEN EmitInferencingSkipped(finish_inferencing(s, a), a)
    ELSE LET t == [s EXCEPT
                     !.app_session_id[a] = ev.session_id,
                     !.app_state[a] = "INFERENCING",
                     !.inference_queue[a] =
                         @ \o <<UserMessage(a, ev.session_id, ev.of), Sentinel>>]
         IN start_inference(t, a, ev.session_id)

\* the events App.handle_raw_transcription of app a emits for the event ev,
\* in order, each with its argument
raw_transcription_emits(s, a, ev) ==
    IF ev.session_id # s.app_session_id[a] THEN <<>>
    ELSE IF ev.kind \in {"error", "bad"}
    THEN <<[type |-> "app_state_change", arg |-> ""]>>
         \o (IF s.app_state[a] \in {"INFERENCING", "RECORDING", "TRANSCRIBING"}
             THEN <<[type |-> "inferencing_complete", arg |-> s.app_session_id[a]]>>
             ELSE <<>>)
         \o <<[type |-> "inferencing_skipped", arg |-> a]>>
    ELSE <<[type |-> "app_state_change", arg |-> "Inferring..."]>>

\* App.handle_inferencing_result of app a (is_llm_streaming is False)
handle_inferencing_result(s, a, ev) ==
    IF ev.session_id # s.app_session_id[a] THEN s
    ELSE App_output([s EXCEPT !.app_session_id[a] = ev.session_id], a, ev)

\* App.finish_transcription
finish_transcription(s, a) == s

\* App.handle_transcription_finished of app a
handle_transcription_finished(s, a, app_name) ==
    IF app_name = a THEN finish_transcription(s, a) ELSE s

\* App.handle_inferencing_finished of app a
handle_inferencing_finished(s, a, app_name) ==
    IF app_name = a THEN finish_inferencing(s, a) ELSE s

(* -------------------- main thread: event delivery --------------------- *)

\* EventBus._process_event calls a topic's subscribers in subscription
\* order. The Apps subscribe in App.__init__ (load_active_apps, in AppOrder),
\* the ApplicationController afterwards (setup_connections).

RECURSIVE AppsHandleRawTranscription(_, _, _)
AppsHandleRawTranscription(s, ev, i) ==
    IF i > Len(AppOrder) THEN s
    ELSE AppsHandleRawTranscription(
             handle_raw_transcription(s, AppOrder[i], ev), ev, i + 1)

RECURSIVE AppsHandleInferencingResult(_, _, _)
AppsHandleInferencingResult(s, ev, i) ==
    IF i > Len(AppOrder) THEN s
    ELSE AppsHandleInferencingResult(
             handle_inferencing_result(s, AppOrder[i], ev), ev, i + 1)

RECURSIVE AppsHandleTranscriptionFinished(_, _, _)
AppsHandleTranscriptionFinished(s, ev, i) ==
    IF i > Len(AppOrder) THEN s
    ELSE AppsHandleTranscriptionFinished(
             handle_transcription_finished(s, AppOrder[i], ev.app), ev, i + 1)

RECURSIVE AppsHandleInferencingFinished(_, _, _)
AppsHandleInferencingFinished(s, ev, i) ==
    IF i > Len(AppOrder) THEN s
    ELSE AppsHandleInferencingFinished(
             handle_inferencing_finished(s, AppOrder[i], ev.app), ev, i + 1)

\* EventBus._process_event for an event taken from the main thread's queue
ProcessEvent(s, ev) ==
    CASE ev.type = "shortcut_triggered" -> handle_shortcut(s, ev.app, ev.kind)
      [] ev.type = "audio_discarded" -> handle_audio_discarded(s, ev.session_id)
      [] ev.type = "recording_stopped" -> handle_recording_stopped(s, ev.session_id)
      [] ev.type = "raw_transcription_result" -> AppsHandleRawTranscription(s, ev, 1)
      [] ev.type = "transcription_finished" -> AppsHandleTranscriptionFinished(s, ev, 1)
      [] ev.type = "inferencing_result" -> AppsHandleInferencingResult(s, ev, 1)
      [] ev.type = "inferencing_finished" ->
            handle_transcription_complete(
                AppsHandleInferencingFinished(s, ev, 1), ev.app)
      [] OTHER -> s

\* the main thread's state after a handler has run
Commit(s) ==
    /\ app_state' = s.app_state
    /\ app_session_id' = s.app_session_id
    /\ inference_queue' = s.inference_queue
    /\ output' = s.output
    /\ completed' = s.completed
    /\ session_app_map' = s.session_app_map
    /\ manually_stopped_apps' = s.manually_stopped_apps
    /\ uuid_count' = s.uuid_count
    /\ recording_queue' = s.recording_queue
    /\ tm_session_id' = s.tm_session_id
    /\ transcribe_event' = s.transcribe_event
    /\ tm_stop_event' = s.tm_stop_event
    /\ llm_session_id' = s.llm_session_id
    /\ llm_event' = s.llm_event
    /\ llm_stop_event' = s.llm_stop_event

\* what no handler of the main thread writes
MainUnchanged ==
    UNCHANGED <<audio_queue, audio_state, audio_pc, context, capture,
                open_streams, tm_pc, tm_item, llm_pc, llm_item, inputVars>>

\* The Qt event loop takes the oldest posted event of the given topic and
\* runs EventBus._process_event for it.
Deliver(topic) ==
    /\ mainQueue # <<>>
    /\ Head(mainQueue).type = topic
    /\ Commit(ProcessEvent(MainState, Head(mainQueue)))
    /\ mainQueue' = Tail(mainQueue)
    /\ MainUnchanged

DeliverShortcut == Deliver("shortcut_triggered")
DeliverAudioDiscarded == Deliver("audio_discarded")
DeliverRecordingStopped == Deliver("recording_stopped")
DeliverRawTranscription == Deliver("raw_transcription_result")
DeliverTranscriptionFinished == Deliver("transcription_finished")
DeliverInferencingResult == Deliver("inferencing_result")
DeliverInferencingFinished == Deliver("inferencing_finished")

(* --------------------------- input thread ------------------------------ *)

PendingShortcuts ==
    Cardinality({i \in 1..Len(mainQueue) : mainQueue[i].type = "shortcut_triggered"})

\* the configured shortcut of app a is a tap sequence ("TAP:...")
is_tap_sequence(a) == a = "a2"

\* InputManager.on_input_event, on the listener thread, for a key event that
\* leaves app a's chord valid (or completes its tap sequence):
\* emit("shortcut_triggered", app_name, "press")
ShortcutPressWithin(a, budget) ==
    /\ PendingShortcuts < MaxPendingShortcuts
    /\ input_count < budget
    /\ input_count' = input_count + 1
    /\ chord_active' = [chord_active EXCEPT ![a] = ~is_tap_sequence(a)]
    /\ UNCHANGED auxVars
    /\ mainQueue' =
         Append(mainQueue, Event("shortcut_triggered", a, None, "press", None))
    /\ UNCHANGED <<appVars, audio_queue, ctlVars, audioVars, tmVars, llmVars>>

ShortcutPress(a) == ShortcutPressWithin(a, MaxShortcuts)

\* InputManager.on_input_event for a key event after which app a's chord,
\* valid before it, is no longer valid:
\* emit("shortcut_triggered", app_name, "release")
ShortcutRelease(a) ==
    /\ chord_active[a]
    /\ PendingShortcuts < MaxPendingShortcuts
    /\ input_count < MaxShortcuts
    /\ input_count' = input_count + 1
    /\ chord_active' = [chord_active EXCEPT ![a] = FALSE]
    /\ UNCHANGED auxVars
    /\ mainQueue' =
         Append(mainQueue, Event("shortcut_triggered", a, None, "release", None))
    /\ UNCHANGED <<appVars, audio_queue, ctlVars, audioVars, tmVars, llmVars>>

(* ------------------------ audio control thread ------------------------- *)

\* an audio control thread that takes the next request whatever it is doing
AudioGet_any_time ==
    /\ UNCHANGED inputVars
    /\ audio_state # "STOPPED"
    /\ recording_queue # <<>>
    /\ recording_queue' = Tail(recording_queue)
    /\ IF Head(recording_queue) = Sentinel
       THEN UNCHANGED <<audio_pc, context>>
       ELSE /\ audio_pc' = "dequeued"
            /\ context' = Head(recording_queue)
    /\ UNCHANGED <<appVars, audio_queue, ctlVars, audio_state, capture,
                   open_streams, tmVars, llmVars, mainQueue>>

\* _audio_thread: recording_queue.get; a None is skipped
AudioGet ==
    /\ UNCHANGED inputVars
    /\ audio_pc = "idle"
    /\ audio_state # "STOPPED"
    /\ recording_queue # <<>>
    /\ recording_queue' = Tail(recording_queue)
    /\ IF Head(recording_queue) = Sentinel
       THEN UNCHANGED <<audio_pc, context>>
       ELSE /\ audio_pc' = "dequeued"
            /\ context' = Head(recording_queue)
    /\ UNCHANGED <<appVars, audio_queue, ctlVars, audio_state, capture,
                   open_streams, tmVars, llmVars, mainQueue>>

\* _audio_thread: self.state = RECORDING; _record_audio up to the capture
\* loop: _setup_audio_stream opens the input stream
AudioBegin ==
    /\ UNCHANGED inputVars
    /\ audio_pc = "dequeued"
    /\ audio_state' = "RECORDING"
    /\ open_streams' = open_streams + 1
    /\ capture' = [recording |-> <<>>,
                   frames_read |-> 0,
                   initial_frames_to_skip |-> InitialFramesToSkip,
                   silent_frame_count |-> 0,
                   speech_detected |-> FALSE]
    /\ audio_pc' = "capturing"
    /\ UNCHANGED <<appVars, audio_queue, ctlVars, recording_queue, context,
                   tmVars, llmVars, mainQueue>>

\* a _handle_streaming with `if` for `while`: at most one chunk a call
handle_streaming_once(recording, chunk_size) ==
    IF Len(recording) >= chunk_size
    THEN [chunks |-> <<SubSeq(recording, 1, chunk_size)>>,
          recording |-> SubSeq(recording, chunk_size + 1, Len(recording))]
    ELSE [chunks |-> <<>>, recording |-> recording]

\* _handle_streaming: the chunks it pushes, oldest first, and what it leaves
\* of the recording
RECURSIVE handle_streaming(_, _)
handle_streaming(recording, chunk_size) ==
    IF Len(recording) >= chunk_size
    THEN LET chunk == SubSeq(recording, 1, chunk_size)
             rest == handle_streaming(
                        SubSeq(recording, chunk_size + 1, Len(recording)),
                        chunk_size)
         IN [chunks |-> <<chunk>> \o rest.chunks, recording |-> rest.recording]
    ELSE [chunks |-> <<>>, recording |-> recording]

\* stream.read: the next frame of app a's capture. The recording of a
\* streaming app is kept sample by sample, any other frame by frame.
Frame(c, a) ==
    IF is_streaming(a)
    THEN [i \in 1..stream_frame_size |-> c.frames_read * stream_frame_size + i]
    ELSE <<c.frames_read + 1>>

\* _capture_audio: the locals after recording.extend(frame_array) and, for a
\* streaming app, _handle_streaming
Extended(c, a) ==
    [c EXCEPT !.recording =
                 IF is_streaming(a)
                 THEN handle_streaming(@ \o Frame(c, a), streaming_chunk_size).recording
                 ELSE @ \o Frame(c, a),
              !.frames_read = @ + 1]

\* _capture_audio: what _handle_streaming pushes after the next frame
Streamed(c, a, sid) ==
    IF is_streaming(a)
    THEN LET chunks == handle_streaming(c.recording \o Frame(c, a),
                                        streaming_chunk_size).chunks
         IN [i \in 1..Len(chunks) |-> AudioChunk(a, sid, chunks[i])]
    ELSE <<>>

\* a classification that never resets the count of silent frames
Classified_no_reset(c, is_speech) ==
    [c EXCEPT !.silent_frame_count = IF is_speech THEN @ ELSE @ + 1,
              !.speech_detected = @ \/ is_speech]

\* the locals of _capture_audio after the VAD classified the frame
Classified(c, is_speech) ==
    [c EXCEPT !.silent_frame_count = IF is_speech THEN 0 ELSE @ + 1,
              !.speech_detected = @ \/ is_speech]

\* _capture_audio: one iteration of the loop
AudioFrame ==
    /\ UNCHANGED inputVars
    /\ audio_pc = "capturing"
    /\ audio_state # "STOPPED"
    /\ recording_queue = <<>>
    /\ capture.frames_read < MaxFrames
    /\ LET a == context.app
           c == Extended(capture, a)
       IN /\ audio_queue' =
                [audio_queue EXCEPT ![a] = @ \o Streamed(capture, a, context.session_id)]
          /\ IF ~use_vad(a)
             THEN /\ capture' = c
                  /\ UNCHANGED audio_pc
             ELSE IF c.initial_frames_to_skip > 0
             THEN /\ capture' = [c EXCEPT !.initial_frames_to_skip = @ - 1]
                  /\ UNCHANGED audio_pc
             ELSE \E is_speech \in BOOLEAN :
                  /\ capture' = Classified(c, is_speech)
                  /\ audio_pc' =
                       IF /\ capture'.speech_detected
                          /\ capture'.silent_frame_count > silence_frames
                       THEN "captured"
                       ELSE "capturing"
    /\ UNCHANGED <<appVars, ctlVars, audio_state, recording_queue, context,
                   open_streams, tmVars, llmVars, mainQueue>>

\* _capture_audio: the loop condition is false
AudioLoopExit ==
    /\ UNCHANGED inputVars
    /\ audio_pc = "capturing"
    /\ audio_state = "STOPPED" \/ recording_queue # <<>>
    /\ audio_pc' = "captured"
    /\ UNCHANGED <<appVars, audio_queue, ctlVars, audio_state, recording_queue,
                   context, capture, open_streams, tmVars, llmVars, mainQueue>>

\* duration * 1000 of a recording of n frames
DurationMs(n) == (n * frame_size * 1000) \div sample_rate

\* a _process_non_streaming_audio that looks at the duration only
Keeps_duration_only(a, c) ==
    DurationMs(Len(c.recording)) >= min_duration_ms

\* _process_non_streaming_audio: is the recording pushed as one chunk
Keeps(a, c) ==
    /\ ~(use_vad(a) /\ ~c.speech_detected)
    /\ DurationMs(Len(c.recording)) >= min_duration_ms

\* a _record_audio that puts no sentinel once the engine has been stopped
Handed_unless_stopped(a, sid, c) ==
    (IF ~is_streaming(a) /\ Keeps(a, c)
     THEN <<AudioChunk(a, sid, c.recording)>> ELSE <<>>)
    \o (IF audio_state = "STOPPED" THEN <<>> ELSE <<Sentinel>>)

\* _record_audio after the capture: what it puts on the app's audio queue
Handed(a, sid, c) ==
    (IF ~is_streaming(a) /\ Keeps(a, c)
     THEN <<AudioChunk(a, sid, c.recording)>> ELSE <<>>)
    \o <<Sentinel>>

\* _record_audio after the capture: _cleanup_audio_resources closes the
\* stream, the recording is pushed or discarded, and the sentinel is put on
\* the app's audio queue
AudioDeliver ==
    /\ UNCHANGED inputVars
    /\ audio_pc = "captured"
    /\ open_streams' = open_streams - 1
    /\ LET a == context.app
           sid == context.session_id
           keep == is_streaming(a) \/ Keeps(a, capture)
       IN /\ audio_queue' =
                [audio_queue EXCEPT ![a] = @ \o Handed(a, sid, capture)]
          /\ mainQueue' =
                IF keep THEN mainQueue
                ELSE Append(mainQueue,
                            Event("audio_discarded", None, sid, None, None))
    /\ audio_pc' = "delivered"
    /\ UNCHANGED <<appVars, ctlVars, audio_state, recording_queue, context,
                   capture, tmVars, llmVars>>

\* _record_audio: the recording_stopped event; then _audio_thread: back to IDLE
AudioFinish ==
    /\ UNCHANGED inputVars
    /\ audio_pc = "delivered"
    /\ mainQueue' =
         IF use_vad(context.app) /\ audio_state # "STOPPED"
         THEN Append(mainQueue,
                     Event("recording_stopped", None, context.session_id, None, None))
         ELSE mainQueue
    /\ audio_state' = IF audio_state # "STOPPED" THEN "IDLE" ELSE audio_state
    /\ audio_pc' = "idle"
    /\ capture' = NoCapture
    /\ context' = Sentinel
    /\ UNCHANGED <<appVars, audio_queue, ctlVars, recording_queue, open_streams,
                   tmVars, llmVars>>

(* ------------------- transcription worker thread ----------------------- *)

\* _transcription_thread: transcribe_event.wait() returns
TMWake(a) ==
    /\ UNCHANGED inputVars
    /\ tm_pc[a] = "wait"
    /\ transcribe_event[a]
    /\ tm_pc' = [tm_pc EXCEPT ![a] = "woken"]
    /\ UNCHANGED <<appVars, audio_queue, ctlVars, audioVars, tm_session_id,
                   transcribe_event, tm_stop_event, tm_item, llmVars, mainQueue>>

\* _transcription_thread: transcribe_event.clear(), then the stop check
TMClear(a) ==
    /\ UNCHANGED inputVars
    /\ tm_pc[a] = "woken"
    /\ transcribe_event' = [transcribe_event EXCEPT ![a] = FALSE]
    /\ tm_pc' = [tm_pc EXCEPT ![a] = IF tm_stop_event[a] THEN "exited" ELSE "drain"]
    /\ UNCHANGED <<appVars, audio_queue, ctlVars, audioVars, tm_session_id,
                   tm_stop_event, tm_item, llmVars, mainQueue>>

\* _process_audio: the loop condition and audio_queue.get; an empty queue
\* (queue.Empty) leaves the thread where it is
TMGet(a) ==
    /\ UNCHANGED inputVars
    /\ tm_pc[a] = "drain"
    /\ tm_stop_event[a] \/ audio_queue[a] # <<>>
    /\ IF tm_stop_event[a]
       THEN /\ tm_pc' = [tm_pc EXCEPT ![a] = "finally"]
            /\ UNCHANGED <<audio_queue, tm_item>>
       ELSE /\ audio_queue' = [audio_queue EXCEPT ![a] = Tail(@)]
            /\ IF Head(audio_queue[a]) = Sentinel
               THEN /\ tm_pc' = [tm_pc EXCEPT ![a] = "finally"]
                    /\ UNCHANGED tm_item
               ELSE /\ tm_pc' = [tm_pc EXCEPT ![a] = "transcribing"]
                    /\ tm_item' = [tm_item EXCEPT ![a] = Head(audio_queue[a])]
    /\ UNCHANGED <<appVars, ctlVars, audioVars, tm_session_id, transcribe_event,
                   tm_stop_event, llmVars, mainQueue>>

\* what backend.transcribe_complete does: it returns a result (good text,
\* low-quality text, a result with an error) or raises
TranscribeOutcomes == {"good", "bad", "error", "raise"}

\* TranscriptionManager._emit_result: the event it posts
TM_emit_result(a, result, of) ==
    Event("raw_transcription_result", None, tm_session_id[a], result, of)

\* _process_audio: backend.transcribe_complete returns and _emit_result runs,
\* or the call raises and control passes to the finally block
TMTranscribe(a) ==
    /\ UNCHANGED inputVars
    /\ tm_pc[a] = "transcribing"
    /\ \E result \in TranscribeOutcomes :
         IF result = "raise"
         THEN /\ tm_pc' = [tm_pc EXCEPT ![a] = "finally_raised"]
              /\ UNCHANGED mainQueue
         ELSE /\ tm_pc' = [tm_pc EXCEPT ![a] = "drain"]
              /\ mainQueue' =
                   Append(mainQueue, TM_emit_result(a, result, tm_item[a].session_id))
    /\ tm_item' = [tm_item EXCEPT ![a] = Sentinel]
    /\ UNCHANGED <<appVars, audio_queue, ctlVars, audioVars, tm_session_id,
                   transcribe_event, tm_stop_event, llmVars>>

\* where the worker thread goes after the finally block: the exception ends
\* the thread; otherwise the thread loop checks stop_event
AfterCycle(pc, stop) ==
    IF pc = "finally_raised" THEN "dead"
    ELSE IF stop THEN "exited" ELSE "wait"

\* a finally block that resets current_session_id and publishes nothing
TMFinally_no_event(a) ==
    /\ UNCHANGED inputVars
    /\ tm_pc[a] \in {"finally", "finally_raised"}
    /\ tm_session_id' = [tm_session_id EXCEPT ![a] = None]
    /\ tm_pc' = [tm_pc EXCEPT ![a] = AfterCycle(tm_pc[a], tm_stop_event[a])]
    /\ UNCHANGED <<appVars, audio_queue, ctlVars, audioVars, transcribe_event,
                   tm_stop_event, tm_item, llmVars, mainQueue>>

\* _process_audio, finally: current_session_id = None and the finished event
TMFinally(a) ==
    /\ UNCHANGED inputVars
    /\ tm_pc[a] \in {"finally", "finally_raised"}
    /\ tm_session_id' = [tm_session_id EXCEPT ![a] = None]
    /\ mainQueue' =
         Append(mainQueue, Event("transcription_finished", a, None, None, None))
    /\ tm_pc' = [tm_pc EXCEPT ![a] = AfterCycle(tm_pc[a], tm_stop_event[a])]
    /\ UNCHANGED <<appVars, audio_queue, ctlVars, audioVars, transcribe_event,
                   tm_stop_event, tm_item, llmVars>>

(* -------------------------- LLM worker thread -------------------------- *)

\* _llm_thread: llm_event.wait() returns
LLMWake(a) ==
    /\ UNCHANGED inputVars
    /\ llm_pc[a] = "wait"
    /\ llm_event[a]
    /\ llm_pc' = [llm_pc EXCEPT ![a] = "woken"]
    /\ UNCHANGED <<appVars, audio_queue, ctlVars, audioVars, tmVars,
                   llm_session_id, llm_event, llm_stop_event, llm_item, mainQueue>>

\* _llm_thread: llm_event.clear(), then the stop check
LLMClear(a) ==
    /\ UNCHANGED inputVars
    /\ llm_pc[a] = "woken"
    /\ llm_event' = [llm_event EXCEPT ![a] = FALSE]
    /\ llm_pc' = [llm_pc EXCEPT ![a] = IF llm_stop_event[a] THEN "exited" ELSE "drain"]
    /\ UNCHANGED <<appVars, audio_queue, ctlVars, audioVars, tmVars,
                   llm_session_id, llm_stop_event, llm_item, mainQueue>>

\* _process_messages: the loop condition and inference_queue.get
LLMGet(a) ==
    /\ UNCHANGED inputVars
    /\ llm_pc[a] = "drain"
    /\ llm_stop_event[a] \/ inference_queue[a] # <<>>
    /\ IF llm_stop_event[a]
       THEN /\ llm_pc' = [llm_pc EXCEPT ![a] = "finally"]
            /\ UNCHANGED <<inference_queue, llm_item>>
       ELSE /\ inference_queue' = [inference_queue EXCEPT ![a] = Tail(@)]
            /\ IF Head(inference_queue[a]) = Sentinel
               THEN /\ llm_pc' = [llm_pc EXCEPT ![a] = "finally"]
                    /\ UNCHANGED llm_item
               ELSE /\ llm_pc' = [llm_pc EXCEPT ![a] = "inferring"]
                    /\ llm_item' = [llm_item EXCEPT ![a] = Head(inference_queue[a])]
    /\ UNCHANGED <<app_state, app_session_id, output, completed, audio_queue, ctlVars,
                   audioVars, tmVars, llm_session_id, llm_event, llm_stop_event,
                   mainQueue>>

\* what handling one user message does: handle_non_streaming_response
\* returns a text, or an empty text or None (it catches what the backend
\* raises); or building the request raises outside that try block
InferenceOutcomes == {"text", "empty", "raise"}

\* LLMManager._emit_result: the event it posts
LLM_emit_result(a, result, of) ==
    Event("inferencing_result", None, llm_session_id[a], result, of)

\* _process_messages: one user message is handled and its result emitted,
\* or the handling raises and control passes to the finally block
LLMInfer(a) ==
    /\ UNCHANGED inputVars
    /\ llm_pc[a] = "inferring"
    /\ \E result \in InferenceOutcomes :
         IF result = "raise"
         THEN /\ llm_pc' = [llm_pc EXCEPT ![a] = "finally_raised"]
              /\ UNCHANGED mainQueue
         ELSE /\ llm_pc' = [llm_pc EXCEPT ![a] = "drain"]
              /\ mainQueue' =
                   Append(mainQueue, LLM_emit_result(a, result, llm_item[a].session_id))
    /\ llm_item' = [llm_item EXCEPT ![a] = Sentinel]
    /\ UNCHANGED <<appVars, audio_queue, ctlVars, audioVars, tmVars,
                   llm_session_id, llm_event, llm_stop_event>>

\* _process_messages, finally: current_session_id = None and the finished event
LLMFinally(a) ==
    /\ UNCHANGED inputVars
    /\ llm_pc[a] \in {"finally", "finally_raised"}
    /\ llm_session_id' = [llm_session_id EXCEPT ![a] = None]
    /\ mainQueue' =
         Append(mainQueue, Event("inferencing_finished", a, None, None, None))
    /\ llm_pc' = [llm_pc EXCEPT ![a] = AfterCycle(llm_pc[a], llm_stop_event[a])]
    /\ UNCHANGED <<appVars, audio_queue, ctlVars, audioVars, tmVars,
                   llm_event, llm_stop_event, llm_item>>

(* ------------------------- the running program ------------------------- *)

\* The state after ApplicationController.__init__ and start_core_components:
\* every app Idle, the audio control thread and the workers started.
\* the state after construction, but for the apps' streaming configuration
InitState ==
    /\ app_state = [a \in Apps |-> "IDLE"]
    /\ app_session_id = [a \in Apps |-> None]
    /\ audio_queue = [a \in Apps |-> <<>>]
    /\ inference_queue = [a \in Apps |-> <<>>]
    /\ output = [a \in Apps |-> <<>>]
    /\ completed = <<>>
    /\ session_app_map = <<>>
    /\ manually_stopped_apps = {}
    /\ uuid_count = 0
    /\ audio_state = "IDLE"
    /\ recording_queue = <<>>
    /\ audio_pc = "idle"
    /\ context = Sentinel
    /\ capture = NoCapture
    /\ open_streams = 0
    /\ tm_session_id = [a \in Apps |-> None]
    /\ transcribe_event = [a \in Apps |-> FALSE]
    /\ tm_stop_event = [a \in Apps |-> FALSE]
    /\ tm_pc = [a \in Apps |-> "wait"]
    /\ tm_item = [a \in Apps |-> Sentinel]
    /\ llm_session_id = [a \in Apps |-> None]
    /\ llm_event = [a \in Apps |-> FALSE]
    /\ llm_stop_event = [a \in Apps |-> FALSE]
    /\ llm_pc = [a \in Apps |-> "wait"]
    /\ llm_item = [a \in Apps |-> Sentinel]
    /\ mainQueue = <<>>
    /\ chord_active = [a \in Apps |-> FALSE]
    /\ input_count = 0
    /\ pressed_keys = {}
    /\ tap_state = 0
    /\ sequence_start_time = NoTime
    /\ now = 1
    /\ keys_down = {}
    /\ last_primary_press = NoTime
    /\ event = [key |-> None, event_type |-> None]
    /\ published = <<>>
    /\ queued_signals = <<>>
    /\ dispatch_stack = <<>>
    /\ invoked = <<>>
    /\ listening = TRUE
    /\ ctl_pc = "idle"
    /\ ctl_app = 0
    /\ initialization_error = None
    /\ error_shown = None
    /\ keyboard_listener = TRUE
    /\ tm_thread = [a \in Apps |-> TRUE]
    /\ llm_thread = [a \in Apps |-> TRUE]

\* the VAD's answers are of no interest
Unasked == [n \in 1..MaxFrames |-> FALSE]

\* StreamingResultHandler.__init__
NewHandler == [buffer |-> "", full_message |-> ""]

\* no streaming inference is under way
NoStream ==
    /\ completion_stream = [chunks |-> <<>>, raises |-> FALSE, consumed |-> FALSE]
    /\ llm_emitted = <<>>
    /\ output_mode = "text"
    /\ result_handler = NewHandler
    /\ handled = <<>>
    /\ delivered = <<>>

\* is_bad_transcription has not been called
NotCalled == [called |-> FALSE, is_bad |-> FALSE, reason |-> None]

Init ==
    /\ InitState
    /\ streaming = [a \in Apps |-> FALSE]
    /\ streaming_chunk_size = DefaultChunkSize
    /\ stream_frame_size = StreamFrameSize(DefaultChunkSize)
    /\ transcription = <<>>
    /\ bad_result = NotCalled
    /\ vad_is_speech = Unasked
    /\ NoStream

MainThread ==
    \/ DeliverShortcut
    \/ DeliverAudioDiscarded
    \/ DeliverRecordingStopped
    \/ DeliverRawTranscription
    \/ DeliverTranscriptionFinished
    \/ DeliverInferencingResult
    \/ DeliverInferencingFinished

InputThread ==
    \/ \E a \in Apps : ShortcutPress(a)
    \/ \E a \in Apps : ShortcutRelease(a)

AudioThread ==
    \/ AudioGet
    \/ AudioBegin
    \/ AudioFrame
    \/ AudioLoopExit
    \/ AudioDeliver
    \/ AudioFinish

TranscriptionThread(a) ==
    \/ TMWake(a)
    \/ TMClear(a)
    \/ TMGet(a)
    \/ TMTranscribe(a)
    \/ TMFinally(a)

LLMThread(a) ==
    \/ LLMWake(a)
    \/ LLMClear(a)
    \/ LLMGet(a)
    \/ LLMInfer(a)
    \/ LLMFinally(a)

Next ==
    \/ MainThread
    \/ InputThread
    \/ AudioThread
    \/ \E a \in Apps : TranscriptionThread(a)
    \/ \E a \in Apps : LLMThread(a)

Spec == Init /\ [][Next]_vars

\* The program with one app in use: the user triggers the shortcut of the
\* second configured app, up to MaxToggles times
MaxToggles == 3

ToggledApp == AppOrder[2]

ToggleNext ==
    \/ MainThread
    \/ ShortcutPressWithin(ToggledApp, MaxToggles)
    \/ AudioThread
    \/ TranscriptionThread(ToggledApp)
    \/ LLMThread(ToggledApp)

ToggleSpec == Init /\ [][ToggleNext]_vars

\* The same program with every thread but the input listener scheduled
\* fairly: the Qt event loop keeps handling posted events, the audio control
\* thread and the worker threads keep running. The user need not press keys.
FairSpec ==
    /\ Spec
    /\ WF_vars(MainThread)
    /\ WF_vars(AudioThread)
    /\ \A a \in Apps : WF_vars(TranscriptionThread(a))
    /\ \A a \in Apps : WF_vars(LLMThread(a))

(* --------------------------- key shortcuts ----------------------------- *)

\* is_valid_chord's loop asking for every member of a group to be pressed
RECURSIVE ValidFrom_all_members(_, _)
ValidFrom_all_members(i, pressed) ==
    IF i > Len(ChordKeys) THEN TRUE
    ELSE IF \E k \in ChordKeys[i].keys : k \notin pressed
         THEN FALSE
         ELSE ValidFrom_all_members(i + 1, pressed)

\* KeyChord.is_valid_chord of a normal chord: the loop over self.keys, from
\* entry i on
RECURSIVE ValidFrom(_, _)
ValidFrom(i, pressed) ==
    IF i > Len(ChordKeys) THEN TRUE
    ELSE LET key == ChordKeys[i]
         IN IF key.is_frozenset
            THEN IF ~(\E k \in key.keys : k \in pressed)
                 THEN FALSE
                 ELSE ValidFrom(i + 1, pressed)
            ELSE IF \E k \in key.keys : k \notin pressed
                 THEN FALSE
                 ELSE ValidFrom(i + 1, pressed)

\* KeyChord.is_valid_chord of a shortcut with the given pressed_keys
is_valid_chord(a, pressed) ==
    IF is_tap_sequence(a) THEN FALSE ELSE ValidFrom(1, pressed)

\* KeyChord.update of a normal chord: the new pressed_keys
chord_update(pressed, key, event_type) ==
    IF event_type = "KEY_PRESS" THEN pressed \cup {key}
    ELSE IF event_type = "KEY_RELEASE" THEN pressed \ {key}
    ELSE pressed

\* KeyChord.reset_sequence
reset_sequence(st) ==
    [st EXCEPT !.sequence_start_time = NoTime, !.tap_state = 0]

\* a tap-sequence update that keeps waiting for the secondary key after a
\* successful sequence
tap_update_no_reset(st, key, event_type, t) ==
    LET timed_out(u) ==
            IF u.tap_state = 1 /\ (t - u.sequence_start_time) > TAP_SEQUENCE_TIMEOUT
            THEN [reset_sequence(u) EXCEPT !.result = FALSE]
            ELSE [u EXCEPT !.result = FALSE]
    IN IF event_type = "KEY_PRESS"
       THEN IF st.tap_state = 0
            THEN IF key = primary_key
                 THEN timed_out([st EXCEPT !.sequence_start_time = t, !.tap_state = 1])
                 ELSE timed_out(st)
            ELSE IF st.tap_state = 1
            THEN IF key = secondary_key
                 THEN IF (t - st.sequence_start_time) <= TAP_SEQUENCE_TIMEOUT
                      THEN [st EXCEPT !.result = TRUE]
                      ELSE timed_out(reset_sequence(st))
                 ELSE IF key = primary_key
                 THEN timed_out([st EXCEPT !.sequence_start_time = t])
                 ELSE timed_out(st)
            ELSE timed_out(st)
       ELSE timed_out(st)

\* a tap-sequence update in which a second press of the primary key leaves
\* the timer running
tap_update_no_restart(st, key, event_type, t) ==
    LET timed_out(u) ==
            IF u.tap_state = 1 /\ (t - u.sequence_start_time) > TAP_SEQUENCE_TIMEOUT
            THEN [reset_sequence(u) EXCEPT !.result = FALSE]
            ELSE [u EXCEPT !.result = FALSE]
    IN IF event_type = "KEY_PRESS"
       THEN IF st.tap_state = 0
            THEN IF key = primary_key
                 THEN timed_out([st EXCEPT !.sequence_start_time = t, !.tap_state = 1])
                 ELSE timed_out(st)
            ELSE IF key = secondary_key
                 THEN IF (t - st.sequence_start_time) <= TAP_SEQUENCE_TIMEOUT
                      THEN [reset_sequence(st) EXCEPT !.result = TRUE]
                      ELSE timed_out(reset_sequence(st))
                 ELSE timed_out(st)
       ELSE timed_out(st)

\* KeyChord.update of a tap sequence at time t: the new tap_state and
\* sequence_start_time, and the value returned
tap_update(st, key, event_type, t) ==
    LET timed_out(u) ==
            IF u.tap_state = 1 /\ (t - u.sequence_start_time) > TAP_SEQUENCE_TIMEOUT
            THEN [reset_sequence(u) EXCEPT !.result = FALSE]
            ELSE [u EXCEPT !.result = FALSE]
    IN IF event_type = "KEY_PRESS"
       THEN IF st.tap_state = 0
            THEN IF key = primary_key
                 THEN timed_out([st EXCEPT !.sequence_start_time = t, !.tap_state = 1])
                 ELSE timed_out(st)
            ELSE IF st.tap_state = 1
            THEN IF key = secondary_key
                 THEN IF (t - st.sequence_start_time) <= TAP_SEQUENCE_TIMEOUT
                      THEN [reset_sequence(st) EXCEPT !.result = TRUE]
                      ELSE timed_out(reset_sequence(st))
                 ELSE IF key = primary_key
                 THEN timed_out([st EXCEPT !.sequence_start_time = t])
                 ELSE timed_out(st)
            ELSE timed_out(st)
       ELSE timed_out(st)

\* the tap-sequence KeyChord's fields
TapState ==
    [tap_state |-> tap_state, sequence_start_time |-> sequence_start_time,
     result |-> FALSE]

\* InputManager.on_input_event, one pass of its loop: the events emitted for
\* the shortcut of app a by the key event (key, event_type) at time t
ShortcutEvents(a, key, event_type, t) ==
    LET was_active == is_valid_chord(a, pressed_keys)
        is_valid == IF is_tap_sequence(a)
                    THEN tap_update(TapState, key, event_type, t).result
                    ELSE is_valid_chord(a, chord_update(pressed_keys, key, event_type))
    IN IF is_valid
       THEN <<Event("shortcut_triggered", a, None, "press", None)>>
       ELSE IF was_active /\ ~is_valid_chord(a, chord_update(pressed_keys, key, event_type))
       THEN <<Event("shortcut_triggered", a, None, "release", None)>>
       ELSE <<>>

RECURSIVE AllShortcutEvents(_, _, _, _)
AllShortcutEvents(i, key, event_type, t) ==
    IF i > Len(AppOrder) THEN <<>>
    ELSE ShortcutEvents(AppOrder[i], key, event_type, t)
            \o AllShortcutEvents(i + 1, key, event_type, t)

\* the time that passes before a key event, in tenths of a second
Delays == {1, TAP_SEQUENCE_TIMEOUT}

\* InputManager.on_input_event for the key event (key, event_type), delay
\* after the previous one
OnInputEvent(key, event_type, delay) ==
    LET t == now + delay
        tap == tap_update(TapState, key, event_type, t)
    IN /\ input_count < MaxKeyEvents
       /\ input_count' = input_count + 1
       /\ now' = t
       /\ pressed_keys' = chord_update(pressed_keys, key, event_type)
       /\ tap_state' = tap.tap_state
       /\ sequence_start_time' = tap.sequence_start_time
       /\ chord_active' = [a \in Apps |-> is_valid_chord(a, pressed_keys')]
       /\ keys_down' = IF event_type = "KEY_PRESS"
                       THEN keys_down \cup {key} ELSE keys_down \ {key}
       /\ event' = [key |-> key, event_type |-> event_type]
       /\ last_primary_press' =
            IF event_type = "KEY_PRESS" /\ key = primary_key
            THEN t ELSE last_primary_press
       /\ mainQueue' = mainQueue \o AllShortcutEvents(1, key, event_type, t)
       /\ UNCHANGED <<appVars, audio_queue, ctlVars, audioVars, tmVars, llmVars,
                      cfgVars, busVars, lifeVars, textVars, vad_is_speech, streamVars>>

KeyNext ==
    \E key \in KeyCodes, event_type \in {"KEY_PRESS", "KEY_RELEASE"},
       delay \in Delays : OnInputEvent(key, event_type, delay)

\* the input listener alone, under every sequence of key events
KeySpec == Init /\ [][KeyNext]_vars

(* ------------------- the workers under any caller ---------------------- *)

\* The two worker threads of each app, with the rest of the program reduced
\* to the calls it makes on them: sessions are started, audio and messages
\* are queued, results are accepted, stop() is called, and posted events are
\* taken off the main thread's queue, in any order.

\* one more call is made on the workers
Called ==
    /\ input_count < MaxCalls
    /\ input_count' = input_count + 1
    /\ UNCHANGED <<chord_active, auxVars>>

\* App.start_transcription(session_id) with a fresh session id
CallStartTranscription(a) ==
    /\ Called
    /\ Commit(start_transcription(
                  [MainState EXCEPT !.uuid_count = @ + 1], a, uuid4(uuid_count)))
    /\ UNCHANGED <<mainQueue, audio_queue, audio_state, audio_pc, context, capture,
                   open_streams, tm_pc, tm_item, llm_pc, llm_item>>

\* the audio thread puts a chunk of the app's session, or the sentinel, on
\* the app's audio queue
CallPutAudio(a) ==
    /\ Called
    /\ \E item \in {AudioChunk(a, app_session_id[a], <<1>>), Sentinel} :
         audio_queue' = [audio_queue EXCEPT ![a] = Append(@, item)]
    /\ UNCHANGED <<appVars, ctlVars, audioVars, tmVars, llmVars, mainQueue>>

\* App.handle_raw_transcription for a good result of the app's session
CallHandleRawTranscription(a) ==
    /\ Called
    /\ app_session_id[a] # None
    /\ Commit(handle_raw_transcription(
                  MainState, a,
                  Event("raw_transcription_result", None, app_session_id[a],
                        "good", app_session_id[a])))
    /\ UNCHANGED <<mainQueue, audio_queue, audio_state, audio_pc, context, capture,
                   open_streams, tm_pc, tm_item, llm_pc, llm_item>>

\* TranscriptionManager.stop up to the join
CallTMStop(a) ==
    /\ Called
    /\ tm_stop_event' = [tm_stop_event EXCEPT ![a] = TRUE]
    /\ transcribe_event' = [transcribe_event EXCEPT ![a] = TRUE]
    /\ UNCHANGED <<appVars, audio_queue, ctlVars, audioVars, tm_session_id, tm_pc,
                   tm_item, llmVars, mainQueue>>

\* LLMManager.stop up to the join
CallLLMStop(a) ==
    /\ Called
    /\ llm_stop_event' = [llm_stop_event EXCEPT ![a] = TRUE]
    /\ llm_event' = [llm_event EXCEPT ![a] = TRUE]
    /\ UNCHANGED <<appVars, audio_queue, ctlVars, audioVars, tmVars, llm_session_id,
                   llm_pc, llm_item, mainQueue>>

\* the main thread takes the oldest posted event off its queue
TakePosted ==
    /\ mainQueue # <<>>
    /\ mainQueue' = Tail(mainQueue)
    /\ UNCHANGED <<appVars, audio_queue, ctlVars, audioVars, tmVars, llmVars, inputVars>>

WorkerNext ==
    \/ \E a \in Apps : CallStartTranscription(a)
    \/ \E a \in Apps : CallPutAudio(a)
    \/ \E a \in Apps : CallHandleRawTranscription(a)
    \/ \E a \in Apps : CallTMStop(a)
    \/ \E a \in Apps : CallLLMStop(a)
    \/ TakePosted
    \/ \E a \in Apps : TranscriptionThread(a)
    \/ \E a \in Apps : LLMThread(a)

WorkerSpec == Init /\ [][WorkerNext]_vars

(* ----------------- the audio manager under any caller ------------------ *)

AudioCalled ==
    /\ input_count < MaxAudioCalls
    /\ input_count' = input_count + 1
    /\ UNCHANGED <<chord_active, auxVars>>

\* AudioManager.start_recording(app, session_id) for a session that the
\* caller has just created and registered
CallStartRecording(a) ==
    /\ AudioCalled
    /\ LET session_id == uuid4(uuid_count)
       IN /\ uuid_count' = uuid_count + 1
          /\ session_app_map' =
                [k \in DOMAIN session_app_map \cup {session_id} |->
                    IF k = session_id THEN a ELSE session_app_map[k]]
          /\ recording_queue' =
                Append(recording_queue, RecordingContext(a, session_id))
    /\ UNCHANGED <<appVars, audio_queue, manually_stopped_apps, audio_state,
                   audio_pc, context, capture, open_streams, tmVars, llmVars,
                   mainQueue>>

\* AudioManager.stop_recording
CallStopRecording ==
    /\ AudioCalled
    /\ recording_queue' = Append(recording_queue, Sentinel)
    /\ UNCHANGED <<appVars, audio_queue, ctlVars, audio_state, audio_pc, context,
                   capture, open_streams, tmVars, llmVars, mainQueue>>

\* AudioManager.stop up to the join
CallAudioStop ==
    /\ AudioCalled
    /\ audio_state # "STOPPED"
    /\ audio_state' = "STOPPED"
    /\ recording_queue' = Append(recording_queue, Sentinel)
    /\ UNCHANGED <<appVars, audio_queue, ctlVars, audio_pc, context, capture,
                   open_streams, tmVars, llmVars, mainQueue>>

\* an audio manager whose apps stream or not, with any chunk size and frame
\* size up to the bounds
AudioInit ==
    /\ InitState
    /\ streaming \in [Apps -> BOOLEAN]
    /\ streaming_chunk_size \in 1..MaxChunkSize
    /\ stream_frame_size \in 1..MaxStreamFrame
    /\ transcription = <<>>
    /\ bad_result = NotCalled
    /\ vad_is_speech = Unasked
    /\ NoStream

AudioNext ==
    \/ \E a \in Apps : CallStartRecording(a)
    \/ CallStopRecording
    \/ CallAudioStop
    \/ AudioThread

AudioSpec == AudioInit /\ [][AudioNext]_vars

(* ------------------- the event bus, call by call ----------------------- *)

\* the event types of the transcription results and what follows them
EventTypes ==
    {"raw_transcription_result", "transcription_finished", "inferencing_skipped"}

\* a bound method subscribed to the bus
Callback(owner, name) == [owner |-> owner, name |-> name]

\* EventBus.subscribe
subscribe(subscribers, event_type, callback) ==
    [subscribers EXCEPT ![event_type] = Append(@, callback)]

\* App.__init__: the subscriptions of app a, in order
AppSubscriptions(a) ==
    <<[event_type |-> "raw_transcription_result",
       callback |-> Callback(a, "handle_raw_transcription")],
      [event_type |-> "transcription_finished",
       callback |-> Callback(a, "handle_transcription_finished")]>>

\* ApplicationController.__init__: load_active_apps constructs the apps, then
\* setup_connections subscribes the controller
RECURSIVE SubscribeCalls(_)
SubscribeCalls(i) ==
    IF i > Len(AppOrder)
    THEN <<[event_type |-> "inferencing_skipped",
            callback |-> Callback("controller", "handle_transcription_complete")]>>
    ELSE AppSubscriptions(AppOrder[i]) \o SubscribeCalls(i + 1)

RECURSIVE SubscribeAll(_, _)
SubscribeAll(subscribers, calls) ==
    IF calls = <<>> THEN subscribers
    ELSE SubscribeAll(subscribe(subscribers, Head(calls).event_type,
                                Head(calls).callback),
                      Tail(calls))

\* EventBus._subscribers once the controller is constructed
Subscribers == SubscribeAll([e \in EventTypes |-> <<>>], SubscribeCalls(1))

\* a _process_event that walks the subscriber list from its end
NextCallback_reversed(event_type, i) ==
    Subscribers[event_type][Len(Subscribers[event_type]) + 1 - i]

\* _process_event: the i-th callback of its loop
NextCallback(event_type, i) == Subscribers[event_type][i]

\* the event types a callback may emit while it runs
HandlerEmits(callback) ==
    IF callback.name = "handle_raw_transcription"
    THEN {"inferencing_skipped"} ELSE {}

\* Qt's connection of a signal emitted on a thread to a slot of an object
\* that lives on the main thread
Connection(thread) == IF thread = "main" THEN "direct" ELSE "queued"

\* a call of _process_event for the n-th event emitted, on a thread
Dispatch(n, event_type, thread) ==
    [event |-> n, event_type |-> event_type, next |-> 1, running |-> FALSE,
     emitted |-> FALSE, thread |-> thread]

Top == dispatch_stack[Len(dispatch_stack)]

Pop == SubSeq(dispatch_stack, 1, Len(dispatch_stack) - 1)

NotTheBus ==
    <<appVars, audio_queue, ctlVars, audioVars, tmVars, llmVars, mainQueue,
      chord_active, input_count, keyVars, cfgVars, lifeVars, textVars,
      vad_is_speech, streamVars>>

\* EventBus.emit on a thread whose running _process_event calls are stack:
\* signal.emit calls the slot at once, or queues the call for the main thread
Emit(stack, thread, event_type) ==
    /\ Len(published) < MaxEmits
    /\ published' = Append(published, event_type)
    /\ IF Connection(thread) = "direct"
       THEN /\ dispatch_stack' =
                 Append(stack, Dispatch(Len(published) + 1, event_type, thread))
            /\ UNCHANGED queued_signals
       ELSE /\ queued_signals' = Append(queued_signals, Len(published) + 1)
            /\ dispatch_stack' = stack

\* the transcription worker thread emits a result or transcription_finished
WorkerEmit(event_type) ==
    /\ Emit(dispatch_stack, "worker", event_type)
    /\ UNCHANGED <<invoked, NotTheBus>>

\* the Qt event loop, idle, delivers the oldest queued emission
EventLoopTake ==
    /\ dispatch_stack = <<>>
    /\ queued_signals # <<>>
    /\ dispatch_stack' =
         <<Dispatch(Head(queued_signals), published[Head(queued_signals)], "main")>>
    /\ queued_signals' = Tail(queued_signals)
    /\ UNCHANGED <<published, invoked, NotTheBus>>

\* _process_event: callback(*args, **kwargs) is called
CallbackBegin ==
    /\ dispatch_stack # <<>>
    /\ ~Top.running
    /\ Top.next <= Len(Subscribers[Top.event_type])
    /\ dispatch_stack' =
         [dispatch_stack EXCEPT ![Len(dispatch_stack)].running = TRUE]
    /\ invoked' = Append(invoked,
                         [event |-> Top.event,
                          callback |-> NextCallback(Top.event_type, Top.next),
                          thread |-> Top.thread,
                          depth |-> Len(dispatch_stack)])
    /\ UNCHANGED <<published, queued_signals, NotTheBus>>

\* the running callback calls event_bus.emit
HandlerEmit ==
    /\ dispatch_stack # <<>>
    /\ Top.running
    /\ ~Top.emitted
    /\ \E event_type \in HandlerEmits(NextCallback(Top.event_type, Top.next)) :
          Emit([dispatch_stack EXCEPT ![Len(dispatch_stack)].emitted = TRUE],
               Top.thread, event_type)
    /\ UNCHANGED <<invoked, NotTheBus>>

\* the running callback returns to the loop of _process_event
CallbackReturn ==
    /\ dispatch_stack # <<>>
    /\ Top.running
    /\ dispatch_stack' =
         [dispatch_stack EXCEPT ![Len(dispatch_stack)] =
             [@ EXCEPT !.running = FALSE, !.emitted = FALSE, !.next = @ + 1]]
    /\ UNCHANGED <<published, queued_signals, invoked, NotTheBus>>

\* _process_event returns: its loop is over
ProcessEventReturn ==
    /\ dispatch_stack # <<>>
    /\ ~Top.running
    /\ Top.next > Len(Subscribers[Top.event_type])
    /\ dispatch_stack' = Pop
    /\ UNCHANGED <<published, queued_signals, invoked, NotTheBus>>

BusNext ==
    \/ \E event_type \in {"raw_transcription_result", "transcription_finished"} :
          WorkerEmit(event_type)
    \/ EventLoopTake
    \/ CallbackBegin
    \/ HandlerEmit
    \/ CallbackReturn
    \/ ProcessEventReturn

\* the event bus under the emissions of the transcription worker and of the
\* callbacks
BusSpec == Init /\ [][BusNext]_vars

(* ------------------------ start-up and shutdown ------------------------ *)

\* The controller starting the components (handle_start_listening) and
\* stopping them (cleanup, after a failed start or from close_application),
\* with the pipeline running in between.

\* the state after ApplicationController.__init__: no component is started,
\* the audio manager is not created, the workers have no thread
LifeInit ==
    /\ app_state = [a \in Apps |-> "IDLE"]
    /\ app_session_id = [a \in Apps |-> None]
    /\ audio_queue = [a \in Apps |-> <<>>]
    /\ inference_queue = [a \in Apps |-> <<>>]
    /\ output = [a \in Apps |-> <<>>]
    /\ completed = <<>>
    /\ session_app_map = <<>>
    /\ manually_stopped_apps = {}
    /\ uuid_count = 0
    /\ audio_state = "STOPPED"
    /\ recording_queue = <<>>
    /\ audio_pc = "none"
    /\ context = Sentinel
    /\ capture = NoCapture
    /\ open_streams = 0
    /\ tm_session_id = [a \in Apps |-> None]
    /\ transcribe_event = [a \in Apps |-> FALSE]
    /\ tm_stop_event = [a \in Apps |-> FALSE]
    /\ tm_pc = [a \in Apps |-> "none"]
    /\ tm_item = [a \in Apps |-> Sentinel]
    /\ llm_session_id = [a \in Apps |-> None]
    /\ llm_event = [a \in Apps |-> FALSE]
    /\ llm_stop_event = [a \in Apps |-> FALSE]
    /\ llm_pc = [a \in Apps |-> "none"]
    /\ llm_item = [a \in Apps |-> Sentinel]
    /\ mainQueue = <<>>
    /\ chord_active = [a \in Apps |-> FALSE]
    /\ input_count = 0
    /\ pressed_keys = {}
    /\ tap_state = 0
    /\ sequence_start_time = NoTime
    /\ now = 1
    /\ keys_down = {}
    /\ last_primary_press = NoTime
    /\ event = [key |-> None, event_type |-> None]
    /\ streaming = [a \in Apps |-> FALSE]
    /\ streaming_chunk_size = DefaultChunkSize
    /\ stream_frame_size = StreamFrameSize(DefaultChunkSize)
    /\ published = <<>>
    /\ queued_signals = <<>>
    /\ dispatch_stack = <<>>
    /\ invoked = <<>>
    /\ listening = FALSE
    /\ ctl_pc = "init"
    /\ ctl_app = 0
    /\ initialization_error = None
    /\ error_shown = None
    /\ keyboard_listener = FALSE
    /\ tm_thread = [a \in Apps |-> FALSE]
    /\ llm_thread = [a \in Apps |-> FALSE]
    /\ transcription = <<>>
    /\ bad_result = NotCalled
    /\ vad_is_speech = Unasked
    /\ NoStream

\* what the controller's start-up and shutdown steps leave alone
LifeUnchanged ==
    UNCHANGED <<output, audio_queue, uuid_count, context, capture,
                open_streams, tm_item, llm_item, mainQueue, chord_active, input_count, keyVars,
                cfgVars, queued_signals, dispatch_stack, invoked, textVars,
                vad_is_speech, streamVars>>

\* handle_start_listening, and start_core_components up to its loop:
\* input_manager.start() starts the listeners; audio_manager.start() takes
\* the engine from STOPPED to IDLE and starts the control thread
handle_start_listening ==
    /\ ctl_pc = "init"
    /\ listening' = TRUE
    /\ keyboard_listener' = TRUE
    /\ audio_state' = "IDLE"
    /\ audio_pc' = "idle"
    /\ initialization_error' = None
    /\ ctl_app' = 1
    /\ ctl_pc' = "start_transcription_manager"
    /\ LifeUnchanged
    /\ UNCHANGED completed
    /\ UNCHANGED <<app_state, app_session_id, inference_queue, session_app_map,
                   manually_stopped_apps, recording_queue, tm_session_id,
                   transcribe_event, tm_stop_event, tm_pc, llmVars, published,
                   error_shown, tm_thread, llm_thread>>

\* start_core_components, the loop: app.transcription_manager.start().
\* backend.initialize returns and the worker thread is started, or it raises
\* and start raises RuntimeError: initialization_error is set and the loop left
StartTranscriptionManager ==
    /\ ctl_pc = "start_transcription_manager"
    /\ LET a == AppOrder[ctl_app]
       IN \E initialized \in BOOLEAN :
            IF initialized
            THEN /\ tm_thread' = [tm_thread EXCEPT ![a] = TRUE]
                 /\ tm_pc' = [tm_pc EXCEPT ![a] = "wait"]
                 /\ ctl_pc' = "start_llm_manager"
                 /\ UNCHANGED initialization_error
            ELSE /\ initialization_error' = a
                 /\ ctl_pc' = "cleanup"
                 /\ UNCHANGED <<tm_thread, tm_pc>>
    /\ LifeUnchanged
    /\ UNCHANGED completed
    /\ UNCHANGED <<app_state, app_session_id, inference_queue, session_app_map,
                   manually_stopped_apps, audio_state, audio_pc, recording_queue,
                   tm_session_id, transcribe_event, tm_stop_event, llmVars,
                   published, listening, ctl_app, error_shown, keyboard_listener,
                   llm_thread>>

\* start_core_components, the loop: app.llm_manager.start(), then the next
\* app; after the last app, emit("initialization_successful")
StartLLMManager ==
    /\ ctl_pc = "start_llm_manager"
    /\ LET a == AppOrder[ctl_app]
       IN \E initialized \in BOOLEAN :
            IF initialized
            THEN /\ llm_thread' = [llm_thread EXCEPT ![a] = TRUE]
                 /\ llm_pc' = [llm_pc EXCEPT ![a] = "wait"]
                 /\ UNCHANGED initialization_error
                 /\ IF ctl_app < Len(AppOrder)
                    THEN /\ ctl_app' = ctl_app + 1
                         /\ ctl_pc' = "start_transcription_manager"
                         /\ UNCHANGED published
                    ELSE /\ ctl_pc' = "idle"
                         /\ published' =
                              Append(published, "initialization_successful")
                         /\ UNCHANGED ctl_app
            ELSE /\ initialization_error' = a
                 /\ ctl_pc' = "cleanup"
                 /\ UNCHANGED <<llm_thread, llm_pc, ctl_app, published>>
    /\ LifeUnchanged
    /\ UNCHANGED completed
    /\ UNCHANGED <<app_state, app_session_id, inference_queue, session_app_map,
                   manually_stopped_apps, audio_state, audio_pc, recording_queue,
                   tmVars, llm_session_id, llm_event, llm_stop_event, listening,
                   error_shown, keyboard_listener, tm_thread>>

\* close_application, up to its call of cleanup
close_application ==
    /\ ctl_pc = "idle"
    /\ ctl_pc' = "cleanup"
    /\ LifeUnchanged
    /\ UNCHANGED completed
    /\ UNCHANGED <<app_state, app_session_id, inference_queue, session_app_map,
                   manually_stopped_apps, audio_state, audio_pc, recording_queue,
                   tmVars, llmVars, published, listening, ctl_app,
                   initialization_error, error_shown, keyboard_listener,
                   tm_thread, llm_thread>>

\* cleanup: audio_manager.stop_recording(), then audio_manager.cleanup() as
\* far as the join in AudioManager.stop
CleanupAudio ==
    /\ ctl_pc = "cleanup"
    /\ recording_queue' =
         Append(recording_queue, Sentinel)
         \o (IF audio_state # "STOPPED" THEN <<Sentinel>> ELSE <<>>)
    /\ audio_state' = "STOPPED"
    /\ ctl_pc' = "audio_join"
    /\ LifeUnchanged
    /\ UNCHANGED completed
    /\ UNCHANGED <<app_state, app_session_id, inference_queue, session_app_map,
                   manually_stopped_apps, audio_pc, tmVars, llmVars, published,
                   listening, ctl_app, initialization_error, error_shown,
                   keyboard_listener, tm_thread, llm_thread>>

\* cleanup: handle_transcription_complete for the sessions of session_app_map
RECURSIVE CloseSessions(_, _)
CloseSessions(s, sessions) ==
    IF sessions = {} THEN s
    ELSE LET session_id == CHOOSE k \in sessions : TRUE
         IN CloseSessions(handle_transcription_complete(s, session_id),
                          sessions \ {session_id})

\* AudioManager.stop: thread.join(timeout=2) returns, the control thread
\* ended or not; then cleanup closes the sessions of session_app_map
AudioJoin ==
    /\ ctl_pc = "audio_join"
    /\ Commit(CloseSessions(MainState, DOMAIN session_app_map))
    /\ ctl_app' = 1
    /\ ctl_pc' = "app_cleanup"
    /\ LifeUnchanged
    /\ UNCHANGED <<audio_state, audio_pc, tm_pc, llm_pc, published, listening,
                   initialization_error, error_shown, keyboard_listener,
                   tm_thread, llm_thread>>

\* Thread.join() returns: the thread has ended
join_at_once(pc) == TRUE

join(pc) == pc \in {"exited", "dead"}

\* an App.cleanup whose TranscriptionManager.stop sets stop_event only
AppCleanup_no_wake ==
    /\ ctl_pc = "app_cleanup"
    /\ LET a == AppOrder[ctl_app]
           s == finish_inferencing(recording_stopped(MainState, a), a)
       IN Commit([s EXCEPT !.tm_stop_event[a] = TRUE])
    /\ ctl_pc' = "tm_join"
    /\ LifeUnchanged
    /\ UNCHANGED <<audio_state, audio_pc, tm_pc, llm_pc, published, listening,
                   ctl_app, initialization_error, error_shown,
                   keyboard_listener, tm_thread, llm_thread>>

\* App.cleanup as far as the join in TranscriptionManager.stop:
\* recording_stopped(), finish_inferencing(), stop_event.set(),
\* transcribe_event.set()
AppCleanup ==
    /\ ctl_pc = "app_cleanup"
    /\ LET a == AppOrder[ctl_app]
           s == finish_inferencing(recording_stopped(MainState, a), a)
       IN Commit([s EXCEPT !.tm_stop_event[a] = TRUE,
                           !.transcribe_event[a] = TRUE])
    /\ ctl_pc' = "tm_join"
    /\ LifeUnchanged
    /\ UNCHANGED <<audio_state, audio_pc, tm_pc, llm_pc, published, listening,
                   ctl_app, initialization_error, error_shown,
                   keyboard_listener, tm_thread, llm_thread>>

\* TranscriptionManager.stop: the join returns, processing_thread = None;
\* then LLMManager.stop as far as its join
TMJoin ==
    /\ ctl_pc = "tm_join"
    /\ LET a == AppOrder[ctl_app]
       IN /\ tm_thread[a] => join(tm_pc[a])
          /\ tm_thread' = [tm_thread EXCEPT ![a] = FALSE]
          /\ llm_stop_event' = [llm_stop_event EXCEPT ![a] = TRUE]
          /\ llm_event' = [llm_event EXCEPT ![a] = TRUE]
    /\ ctl_pc' = "llm_join"
    /\ LifeUnchanged
    /\ UNCHANGED completed
    /\ UNCHANGED <<app_state, app_session_id, inference_queue, session_app_map,
                   manually_stopped_apps, audio_state, audio_pc, recording_queue,
                   tmVars, llm_session_id, llm_pc, published, listening, ctl_app,
                   initialization_error, error_shown, keyboard_listener,
                   llm_thread>>

\* LLMManager.stop: the join returns, processing_thread = None; App.cleanup
\* resets the app's attributes (state, audio_queue, ... = None); then the
\* next app
LLMJoin ==
    /\ ctl_pc = "llm_join"
    /\ LET a == AppOrder[ctl_app]
       IN /\ llm_thread[a] => join(llm_pc[a])
          /\ llm_thread' = [llm_thread EXCEPT ![a] = FALSE]
          /\ app_state' = [app_state EXCEPT ![a] = None]
    /\ IF ctl_app < Len(AppOrder)
       THEN /\ ctl_app' = ctl_app + 1
            /\ ctl_pc' = "app_cleanup"
       ELSE /\ ctl_pc' = "input_cleanup"
            /\ UNCHANGED ctl_app
    /\ LifeUnchanged
    /\ UNCHANGED completed
    /\ UNCHANGED <<app_session_id, inference_queue, session_app_map,
                   manually_stopped_apps, audio_state, audio_pc, recording_queue,
                   tmVars, llmVars, published, listening, initialization_error,
                   error_shown, keyboard_listener, tm_thread>>

\* cleanup: session_app_map.clear(), input_manager.cleanup(); then back in
\* the caller: start_core_components sets listening = False and shows the
\* error, close_application emits quit_application
CleanupInput ==
    /\ ctl_pc = "input_cleanup"
    /\ session_app_map' = <<>>
    /\ keyboard_listener' = FALSE
    /\ IF initialization_error # None
       THEN /\ listening' = FALSE
            /\ error_shown' = initialization_error
            /\ UNCHANGED published
       ELSE /\ published' = Append(published, "quit_application")
            /\ UNCHANGED <<listening, error_shown>>
    /\ ctl_pc' = "closed"
    /\ LifeUnchanged
    /\ UNCHANGED completed
    /\ UNCHANGED <<app_state, app_session_id, inference_queue,
                   manually_stopped_apps, audio_state, audio_pc, recording_queue,
                   tmVars, llmVars, ctl_app, initialization_error, tm_thread,
                   llm_thread>>

\* cleanup called again, by run after the event loop and by main's finally:
\* audio_manager and input_manager are None and active_apps and
\* session_app_map are empty, so every branch and loop is skipped
CleanupAgain ==
    /\ ctl_pc = "closed"
    /\ ctl_pc' = "closed_again"
    /\ LifeUnchanged
    /\ UNCHANGED completed
    /\ UNCHANGED <<app_state, app_session_id, inference_queue, session_app_map,
                   manually_stopped_apps, audio_state, audio_pc, recording_queue,
                   tmVars, llmVars, published, listening, ctl_app,
                   initialization_error, error_shown, keyboard_listener,
                   tm_thread, llm_thread>>

\* _audio_thread: the loop condition is false, the thread ends
AudioExit ==
    /\ UNCHANGED inputVars
    /\ audio_pc = "idle"
    /\ audio_state = "STOPPED"
    /\ audio_pc' = "exited"
    /\ UNCHANGED <<appVars, audio_queue, ctlVars, audio_state, recording_queue,
                   context, capture, open_streams, tmVars, llmVars, mainQueue>>

\* _record_audio after the capture, for an app whose attributes App.cleanup
\* has reset: the stream is closed, the recording is discarded or its push
\* fails, and audio_queue.put raises AttributeError, which ends the thread
AudioDeliverToNone ==
    /\ UNCHANGED inputVars
    /\ audio_pc = "captured"
    /\ app_state[context.app] = None
    /\ open_streams' = open_streams - 1
    /\ mainQueue' =
         IF Keeps(context.app, capture) THEN mainQueue
         ELSE Append(mainQueue,
                     Event("audio_discarded", None, context.session_id, None, None))
    /\ audio_pc' = "dead"
    /\ UNCHANGED <<appVars, audio_queue, ctlVars, audio_state, recording_queue,
                   context, capture, tmVars, llmVars>>

\* shortcuts the user triggers between start-up and shutdown, at most
MaxLifeShortcuts == 1

LifeMainThread ==
    \/ handle_start_listening
    \/ StartTranscriptionManager
    \/ StartLLMManager
    \/ close_application
    \/ CleanupAudio
    \/ AudioJoin
    \/ AppCleanup
    \/ TMJoin
    \/ LLMJoin
    \/ CleanupInput
    \/ CleanupAgain
    \/ ctl_pc = "idle" /\ MainThread

LifeInputThread ==
    /\ keyboard_listener
    /\ input_count < MaxLifeShortcuts
    /\ InputThread

LifeAudioThread ==
    \/ AudioGet
    \/ AudioBegin
    \/ AudioFrame
    \/ AudioLoopExit
    \/ audio_pc = "captured" /\ app_state[context.app] # None /\ AudioDeliver
    \/ AudioDeliverToNone
    \/ AudioFinish
    \/ AudioExit

LifeNext ==
    \/ LifeMainThread
    \/ LifeInputThread
    \/ LifeAudioThread
    \/ \E a \in Apps : TranscriptionThread(a)
    \/ \E a \in Apps : LLMThread(a)

LifeSpec == LifeInit /\ [][LifeNext]_vars

\* the operating system schedules every thread that can run: each worker
\* thread takes its next step, and a join whose thread has ended returns
FairLifeSpec ==
    /\ LifeSpec
    /\ \A a \in Apps : WF_vars(TranscriptionThread(a))
    /\ \A a \in Apps : WF_vars(LLMThread(a))
    /\ WF_vars(TMJoin)
    /\ WF_vars(LLMJoin)

(* ----------------------- the low-quality filter ----------------------- *)

\* A text is the sequence of its characters.

\* str.lower, of one character
lower_char(c) ==
    CASE c = "U" -> "u"
      [] c = "M" -> "m"
      [] c = "S" -> "s"
      [] c = "O" -> "o"
      [] OTHER -> c

\* str.lower
lower(text) == [i \in 1..Len(text) |-> lower_char(text[i])]

\* the characters str.strip and str.split take for whitespace
Whitespace == {" "}

\* str.strip
RECURSIVE strip(_)
strip(text) ==
    IF text = <<>> THEN text
    ELSE IF Head(text) \in Whitespace THEN strip(Tail(text))
    ELSE IF text[Len(text)] \in Whitespace
    THEN strip(SubSeq(text, 1, Len(text) - 1))
    ELSE text

\* str.split(): the maximal runs of characters that are not whitespace;
\* word is the run being read
RECURSIVE split_from(_, _)
split_from(text, word) ==
    IF text = <<>>
    THEN IF word = <<>> THEN <<>> ELSE <<word>>
    ELSE IF Head(text) \in Whitespace
    THEN (IF word = <<>> THEN <<>> ELSE <<word>>) \o split_from(Tail(text), <<>>)
    ELSE split_from(Tail(text), Append(word, Head(text)))

split(text) == split_from(text, <<>>)

\* the characters of '.!?,;'
JustPunctuation == {".", "!", "?", ",", ";"}

\* filler_words
filler_words == {<<"u", "m">>, <<"u", "h">>, <<"s", "o">>}

\* is_bad_transcription: the pair it returns
is_bad_transcription(text) ==
    LET cleaned_text == lower(strip(text))
        words == split(cleaned_text)
        word_count == Len(words)
        unique_count == Cardinality({words[i] : i \in 1..word_count})
        filler_count ==
            Cardinality({i \in 1..word_count : words[i] \in filler_words})
    IN IF cleaned_text = <<>>
       THEN [called |-> TRUE, is_bad |-> TRUE, reason |-> "Transcription is empty"]
       ELSE IF \A i \in 1..Len(cleaned_text) : cleaned_text[i] \in JustPunctuation
       THEN [called |-> TRUE, is_bad |-> TRUE,
             reason |-> "Transcription is just punctuation"]
       ELSE IF word_count >= 3 /\ 10 * unique_count < 4 * word_count
       THEN [called |-> TRUE, is_bad |-> TRUE,
             reason |-> "Transcription is just filler words"]
       ELSE IF word_count > 0 /\ 2 * filler_count > word_count
       THEN [called |-> TRUE, is_bad |-> TRUE,
             reason |-> "Transcription is just filler words"]
       ELSE [called |-> TRUE, is_bad |-> FALSE, reason |-> None]

\* the pieces the texts are put together from: a space, punctuation marks, a
\* filler word in two spellings, another filler word, and another word
Pieces ==
    {<<" ">>, <<".">>, <<"-">>, <<"u", "m">>, <<"U", "m">>, <<"s", "o">>, <<"a">>}

\* the pieces of a text, at most
MaxPieces == 5

RECURSIVE Texts(_)
Texts(n) ==
    IF n = 0 THEN {<<>>}
    ELSE LET shorter == Texts(n - 1)
         IN shorter \cup {text \o piece : text \in shorter, piece \in Pieces}

\* "...", "um um um so" and "please schedule the meeting"
Examples ==
    {<<".", ".", ".">>,
     <<"u", "m", " ", "u", "m", " ", "u", "m", " ", "s", "o">>,
     <<"p", "l", "e", "a", "s", "e", " ", "s", "c", "h", "e", "d", "u", "l", "e",
       " ", "t", "h", "e", " ", "m", "e", "e", "t", "i", "n", "g">>}

\* any text up to the bound, or one of the examples
TextInit ==
    /\ InitState
    /\ streaming = [a \in Apps |-> FALSE]
    /\ streaming_chunk_size = DefaultChunkSize
    /\ stream_frame_size = StreamFrameSize(DefaultChunkSize)
    /\ transcription \in Texts(MaxPieces) \cup Examples
    /\ bad_result = NotCalled
    /\ vad_is_speech = Unasked
    /\ NoStream

\* App.handle_raw_transcription: is_bad, reason = is_bad_transcription(...)
CallIsBadTranscription ==
    /\ ~bad_result.called
    /\ bad_result' = is_bad_transcription(transcription)
    /\ UNCHANGED <<appVars, audio_queue, ctlVars, audioVars, tmVars, llmVars,
                   mainQueue, chord_active, input_count, keyVars, cfgVars,
                   busVars, lifeVars, transcription, vad_is_speech, streamVars>>

TextSpec == TextInit /\ [][CallIsBadTranscription]_vars

(* ------------------------- the frame size ------------------------------ *)

\* _calculate_frame_size(sample_rate, streaming_chunk_size, is_streaming)
calculate_frame_size(chunk_size, streams) ==
    IF streams THEN StreamFrameSize(chunk_size) ELSE frame_size

\* the configured streaming chunk sizes range up to this, and the default
MaxConfiguredChunk == 960

\* a recording request is about to be configured: any streaming setting of
\* the apps and any chunk size; no audio_config has been prepared yet
FrameInit ==
    /\ InitState
    /\ streaming \in [Apps -> BOOLEAN]
    /\ streaming_chunk_size \in (1..MaxConfiguredChunk) \cup {DefaultChunkSize}
    /\ stream_frame_size = 0
    /\ transcription = <<>>
    /\ bad_result = NotCalled
    /\ vad_is_speech = Unasked
    /\ NoStream

\* _audio_thread has taken a recording request of app a off the queue
TakeRequest(a) ==
    /\ audio_pc = "idle"
    /\ context' = RecordingContext(a, uuid4(0))
    /\ audio_pc' = "dequeued"
    /\ UNCHANGED <<appVars, audio_queue, ctlVars, audio_state, recording_queue,
                   capture, open_streams, tmVars, llmVars, mainQueue, inputVars>>

\* _prepare_audio_config: frame_size = _calculate_frame_size(...)
PrepareAudioConfig ==
    /\ audio_pc = "dequeued"
    /\ stream_frame_size' =
         calculate_frame_size(streaming_chunk_size, is_streaming(context.app))
    /\ audio_pc' = "configured"
    /\ UNCHANGED <<appVars, audio_queue, ctlVars, audio_state, recording_queue,
                   context, capture, open_streams, tmVars, llmVars, mainQueue,
                   chord_active, input_count, keyVars, streaming,
                   streaming_chunk_size, busVars, lifeVars, textVars,
                   vad_is_speech, streamVars>>

FrameNext ==
    \/ \E a \in Apps : TakeRequest(a)
    \/ PrepareAudioConfig

FrameSpec == FrameInit /\ [][FrameNext]_vars

(* --------------------- the VAD's answers given ------------------------- *)

\* One capture, with what the VAD answers for each frame fixed beforehand:
\* vad.is_speech returns vad_is_speech[n] when asked about the n-th frame.

VadInit ==
    /\ InitState
    /\ streaming = [a \in Apps |-> FALSE]
    /\ streaming_chunk_size = DefaultChunkSize
    /\ stream_frame_size = StreamFrameSize(DefaultChunkSize)
    /\ transcription = <<>>
    /\ bad_result = NotCalled
    /\ vad_is_speech \in [1..MaxFrames -> BOOLEAN]
    /\ NoStream

\* _capture_audio: one iteration of the loop, the VAD answering as given
VadFrame ==
    /\ AudioFrame
    /\ (use_vad(context.app) /\ capture.initial_frames_to_skip = 0)
         => capture' = Classified(Extended(capture, context.app),
                                  vad_is_speech[capture.frames_read + 1])

VadNext ==
    \/ \E a \in Apps : input_count = 0 /\ CallStartRecording(a)
    \/ input_count = 1 /\ CallStopRecording
    \/ AudioGet
    \/ AudioBegin
    \/ VadFrame
    \/ AudioLoopExit
    \/ AudioDeliver
    \/ AudioFinish

VadSpec == VadInit /\ [][VadNext]_vars

(* ------------------------ streaming inference ------------------------- *)

StartOfStream == "<start_of_stream>"
EndOfStream == "<end_of_stream>"

\* text fragments a backend yields
Fragments == {"", "a", "b"}

\* fragments of one completion stream, at most
MaxFragments == 3

\* backend.stream_completion: the fragments it yields, after which it ends or
\* raises
CompletionStreams ==
    [chunks : UNION {[1..n -> Fragments] : n \in 0..MaxFragments},
     raises : BOOLEAN,
     consumed : {FALSE}]

\* handle_streaming_response: the loop over the stream from its i-th
\* fragment on: what _emit_result is called with
RECURSIVE stream_loop(_, _, _)
stream_loop(chunks, i, full_response) ==
    IF i > Len(chunks) THEN <<>>
    ELSE (IF full_response = "" THEN <<StartOfStream>> ELSE <<>>)
         \o <<chunks[i]>>
         \o stream_loop(chunks, i + 1, full_response \o chunks[i])

\* handle_streaming_response: what _emit_result is called with, in order; an
\* exception of the stream ends the call without the end marker
handle_streaming_response(stream) ==
    stream_loop(stream.chunks, 1, "")
    \o (IF stream.raises THEN <<>> ELSE <<EndOfStream>>)

StreamInit ==
    /\ InitState
    /\ streaming = [a \in Apps |-> FALSE]
    /\ streaming_chunk_size = DefaultChunkSize
    /\ stream_frame_size = StreamFrameSize(DefaultChunkSize)
    /\ transcription = <<>>
    /\ bad_result = NotCalled
    /\ vad_is_speech = Unasked
    /\ completion_stream \in CompletionStreams
    /\ llm_emitted = <<>>
    /\ output_mode = "text"
    /\ result_handler = NewHandler
    /\ handled = <<>>
    /\ delivered = <<>>

\* _process_messages with is_streaming: handle_streaming_response for one
\* user message
CallHandleStreamingResponse ==
    /\ ~completion_stream.consumed
    /\ llm_emitted' = handle_streaming_response(completion_stream)
    /\ completion_stream' = [completion_stream EXCEPT !.consumed = TRUE]
    /\ UNCHANGED <<appVars, audio_queue, ctlVars, audioVars, tmVars, llmVars,
                   mainQueue, chord_active, input_count, keyVars, cfgVars,
                   busVars, lifeVars, textVars, vad_is_speech, output_mode,
                   result_handler, handled, delivered>>

StreamSpec == StreamInit /\ [][CallHandleStreamingResponse]_vars

(* --------------------- streaming result handler ------------------------ *)

\* output_options.output_mode
OutputModes == {"clipboard", "notification", "pop-up", "text", "voice"}

\* something handle_result puts out: a clipboard write, a typed text, or an
\* event for the user interface, with its text
Put(sink, text) == <<[sink |-> sink, text |-> text]>>

\* StreamingResultHandler.handle_result(result, output_mode) for
\* result['assistant'] = new_text: the handler's attributes afterwards and
\* what the call puts out, in order
handle_result(h, new_text, mode) ==
    IF new_text = ""
    THEN [handler |-> h, put |-> <<>>]
    ELSE IF new_text = StartOfStream
    THEN [handler |-> h,
          put |-> IF mode = "pop-up" THEN Put("start_of_stream", "") ELSE <<>>]
    ELSE IF new_text = EndOfStream
    THEN [handler |-> [buffer |-> "", full_message |-> ""],
          put |-> (IF mode = "clipboard" THEN Put("to_clipboard", h.full_message)
                   ELSE IF mode = "notification"
                   THEN Put("show_balloon", h.full_message)
                   ELSE <<>>)
                  \o Put("end_of_stream", "")]
    ELSE [handler |-> [buffer |-> new_text,
                       full_message |-> h.full_message \o new_text],
          put |-> IF mode = "pop-up" THEN Put("add_text_to_popup", new_text)
                  ELSE IF mode = "text" THEN Put("typewrite", new_text)
                  ELSE IF mode = "voice" THEN Put("show_balloon", new_text)
                  ELSE <<>>]

\* streaming inferences one handler sees, at most
MaxStreams == 2

\* the results of one streaming inference handled one after the other, from
\* the i-th on: the handler's attributes afterwards and what was put out,
\* each with the place its result has among all results handled
RECURSIVE handle_results(_, _, _, _, _)
handle_results(h, texts, i, mode, before) ==
    IF i > Len(texts) THEN [handler |-> h, put |-> <<>>]
    ELSE LET r == handle_result(h, texts[i], mode)
             rest == handle_results(r.handler, texts, i + 1, mode, before)
         IN [handler |-> rest.handler,
             put |-> [k \in 1..Len(r.put) |->
                         [sink |-> r.put[k].sink,
                          text |-> r.put[k].text,
                          at |-> before + i]]
                     \o rest.put]

HandlerInit ==
    /\ InitState
    /\ streaming = [a \in Apps |-> FALSE]
    /\ streaming_chunk_size = DefaultChunkSize
    /\ stream_frame_size = StreamFrameSize(DefaultChunkSize)
    /\ transcription = <<>>
    /\ bad_result = NotCalled
    /\ vad_is_speech = Unasked
    /\ completion_stream = [chunks |-> <<>>, raises |-> FALSE, consumed |-> FALSE]
    /\ llm_emitted = <<>>
    /\ output_mode \in OutputModes
    /\ result_handler = NewHandler
    /\ handled = <<>>
    /\ delivered = <<>>

\* one streaming inference of the LLM worker, and
\* App.handle_inferencing_result with is_llm_streaming for each result it
\* publishes: result_handler.handle_result(result, output_mode)
HandleInferencingResults ==
    /\ input_count < MaxStreams
    /\ input_count' = input_count + 1
    /\ \E stream \in CompletionStreams :
         LET texts == handle_streaming_response(stream)
             r == handle_results(result_handler, texts, 1, output_mode,
                                 Len(handled))
         IN /\ handled' = handled \o texts
            /\ result_handler' = r.handler
            /\ delivered' = delivered \o r.put
    /\ UNCHANGED <<appVars, audio_queue, ctlVars, audioVars, tmVars, llmVars,
                   mainQueue, chord_active, keyVars, cfgVars, busVars,
                   lifeVars, textVars, vad_is_speech, completion_stream,
                   llm_emitted, output_mode>>

HandlerSpec == HandlerInit /\ [][HandleInferencingResults]_vars

(* ------------------------ session state machine ------------------------ *)

\* the edges of the session state machine
AllowedTransitions ==
    {<<"IDLE", "RECORDING">>, <<"RECORDING", "TRANSCRIBING">>,
     <<"TRANSCRIBING", "INFERENCING">>, <<"TRANSCRIBING", "IDLE">>,
     <<"INFERENCING", "IDLE">>}

\* C1: in every execution an App's state changes only along the edges
\* Idle->Recording, Recording->Transcribing, Transcribing->Inferencing,
\* Transcribing->Idle and Inferencing->Idle.
C1_OnlyAllowedEdges ==
    [][\A a \in Apps :
          app_state'[a] # app_state[a] =>
              <<app_state[a], app_state'[a]>> \in AllowedTransitions]_vars

\* C2: between handler executions, an App is Idle if and only if its
\* current_session_id is None.
C2_IdleIffNoSession ==
    \A a \in Apps : (app_state[a] = "IDLE") <=> (app_session_id[a] = None)

\* the main thread is about to handle a result event
ResultArrives ==
    /\ mainQueue # <<>>
    /\ Head(mainQueue).type \in {"raw_transcription_result", "inferencing_result"}

\* C3: when a raw_transcription_result or inferencing_result event is handled
\* whose session id differs from an App's current_session_id, that App's
\* state and current_session_id are unchanged, nothing is put on its
\* inference queue and nothing is sent to its output sink.
C3_StaleResultIsNoOp ==
    [][\A a \in Apps :
          (/\ ResultArrives
           /\ Head(mainQueue).session_id # app_session_id[a]
           /\ mainQueue' = Tail(mainQueue))
          => /\ app_state'[a] = app_state[a]
             /\ app_session_id'[a] = app_session_id[a]
             /\ inference_queue'[a] = inference_queue[a]
             /\ output'[a] = output[a]]_vars

\* C3 witness: the result of an earlier session of an app is about to be
\* handled while that app is in a later session
C3_StaleResultArrives ==
    /\ ResultArrives
    /\ \E a \in Apps :
         /\ app_state[a] # "IDLE"
         /\ app_session_id[a] # None
         /\ Head(mainQueue).of \in DOMAIN session_app_map
         /\ session_app_map[Head(mainQueue).of] = a
         /\ Head(mainQueue).session_id # app_session_id[a]

\* C4: at most one App is in the Recording state at any time.
C4_AtMostOneRecording ==
    Cardinality({a \in Apps : app_state[a] = "RECORDING"}) <= 1

(* --------------------------- worker results ---------------------------- *)

\* the i-th posted event is the inferencing_result of a message that a
\* session of an app enqueued
IsSessionInferencingResult(i) ==
    /\ mainQueue[i].type = "inferencing_result"
    /\ mainQueue[i].of \in DOMAIN session_app_map

\* C5: under fair scheduling of the audio thread, the workers and the main
\* thread, every App whose recording has ended (it is Transcribing or
\* Inferencing) eventually returns to Idle.
C5_EventuallyIdle ==
    \A a \in Apps :
        (app_state[a] \in {"TRANSCRIBING", "INFERENCING"}) ~> (app_state[a] = "IDLE")

\* C6: every raw_transcription_result event published for an audio chunk
\* recorded in session S carries session id S.
C6_RawResultCarriesChunkSession ==
    \A i \in 1..Len(mainQueue) :
        mainQueue[i].type = "raw_transcription_result"
            => mainQueue[i].session_id = mainQueue[i].of

InCycle == {"drain", "transcribing", "inferring", "finally", "finally_raised"}

\* the event a step has posted, or the sentinel if it posted none
Posted ==
    IF Len(mainQueue') = Len(mainQueue) + 1
    THEN mainQueue'[Len(mainQueue')]
    ELSE Event(None, None, None, None, None)

\* C8: every drain cycle of a worker publishes exactly one finished event for
\* its owning app, after all result events of the cycle: the worker publishes
\* transcription_finished / inferencing_finished in the step that leaves the
\* cycle and in no other step, and a step that publishes a result stays in
\* the cycle.
C8_OneFinishedPerCycle ==
    [][\A a \in Apps :
          /\ (tm_pc[a] \in InCycle /\ tm_pc'[a] \notin InCycle)
                <=> (/\ tm_pc'[a] # tm_pc[a]
                     /\ Posted = Event("transcription_finished", a, None, None, None))
          /\ (llm_pc[a] \in InCycle /\ llm_pc'[a] \notin InCycle)
                <=> (/\ llm_pc'[a] # llm_pc[a]
                     /\ Posted = Event("inferencing_finished", a, None, None, None))
          /\ (tm_pc'[a] # tm_pc[a] /\ Posted.type = "raw_transcription_result")
                => (tm_pc[a] \in InCycle /\ tm_pc'[a] \in InCycle)
          /\ (llm_pc'[a] # llm_pc[a] /\ Posted.type = "inferencing_result")
                => (llm_pc[a] \in InCycle /\ llm_pc'[a] \in InCycle)]_vars

\* C8 witness: the cycle of a worker whose backend call raised has ended and
\* its finished event is posted, while another worker, asked to stop in the
\* middle of its cycle, is about to leave it
C8_CyclesEndedByRaiseAndStop ==
    /\ \E a \in Apps :
         /\ tm_pc[a] = "dead"
         /\ \E i \in 1..Len(mainQueue) :
              mainQueue[i] = Event("transcription_finished", a, None, None, None)
    /\ \E a \in Apps : tm_pc[a] = "finally" /\ tm_stop_event[a]

(* ---------------------- orchestrator bookkeeping ----------------------- *)

\* an inference of app a has finished: its output was produced and the app
\* is Idle again
InferenceCompleted(a) ==
    /\ app_state[a] = "IDLE"
    /\ output[a] # <<>>

\* C9: an app configured for Continuous mode that was not manually stopped
\* enters Recording again after a session completes, without any further
\* shortcut activation.
C9_ContinuousRestarts ==
    \A a \in Apps :
        ConfigRecordingMode(a) = "CONTINUOUS" =>
            ((InferenceCompleted(a) /\ a \notin manually_stopped_apps)
                ~> (app_state[a] = "RECORDING"))

\* C10: the session-to-app map holds no session that has ended: every session
\* id in it is the current session id of its app, so there is at most one
\* per app.
C10_EndedSessionsLeaveMap ==
    \A sid \in DOMAIN session_app_map :
        app_session_id[session_app_map[sid]] = sid

(* ------------------------------ C11 ------------------------------------ *)

\* the shortcut that is a normal chord
ChordApp == CHOOSE a \in Apps : ~is_tap_sequence(a)

\* every required key-group has a member among the keys held down
AllGroupsHeld(down) ==
    \A i \in 1..Len(ChordKeys) : ChordKeys[i].keys \cap down # {}

\* C11: after every sequence of key presses and releases the value returned
\* by the chord's update, and by is_valid_chord afterwards, is "every
\* required key-group has a member among the keys held down"; and a release
\* of the only held member of a group makes the value false on that event.
C11_ChordValueIsAllGroupsHeld ==
    /\ [](/\ chord_active[ChordApp] = AllGroupsHeld(keys_down)
          /\ is_valid_chord(ChordApp, pressed_keys) = AllGroupsHeld(keys_down))
    /\ [][\A k \in KeyCodes :
            (/\ keys_down' = keys_down \ {k}
             /\ \E i \in 1..Len(ChordKeys) : ChordKeys[i].keys \cap keys_down = {k})
            => ~chord_active'[ChordApp]]_vars

\* the chord was held through one member of the modifier group and its plain
\* key was then released, which published the release
C11_ChordReleasedByLastMember ==
    /\ keys_down = {"CTRL_RIGHT"}
    /\ ~chord_active[ChordApp]
    /\ \E i \in 1..Len(mainQueue) :
          /\ mainQueue[i].app = ChordApp
          /\ mainQueue[i].kind = "release"

(* ------------------------------ C12 ------------------------------------ *)

\* the events that a step appends to the main thread's queue
Emitted == SubSeq(mainQueue', Len(mainQueue) + 1, Len(mainQueue'))

\* how many of the events that the step publishes are the chord's, of a kind
EmittedCount(kind) ==
    Cardinality({i \in 1..Len(Emitted) :
                    /\ Emitted[i].type = "shortcut_triggered"
                    /\ Emitted[i].app = ChordApp
                    /\ Emitted[i].kind = kind})

\* C12: on_input_event publishes the chord's press exactly on a rising edge
\* (chord unsatisfied before the key event, satisfied after it) and its
\* release exactly on a falling edge; a key event that leaves the chord
\* satisfied before and after publishes nothing for the chord.
C12_PressAndReleaseOnEdgesOnly ==
    [][LET was == is_valid_chord(ChordApp, pressed_keys)
           is == is_valid_chord(ChordApp, pressed_keys')
       IN /\ EmittedCount("press") = (IF ~was /\ is THEN 1 ELSE 0)
          /\ EmittedCount("release") = (IF was /\ ~is THEN 1 ELSE 0)]_vars

(* ------------------------------ C13 ------------------------------------ *)

\* the shortcut that is a tap sequence
TapApp == CHOOSE a \in Apps : is_tap_sequence(a)

\* the step publishes the press of the tap-sequence shortcut: its update
\* returned true
TapActivated ==
    \E i \in 1..Len(Emitted) :
        /\ Emitted[i].type = "shortcut_triggered"
        /\ Emitted[i].app = TapApp
        /\ Emitted[i].kind = "press"

\* C13: on a key event the tap sequence's update returns true exactly when
\* the event is a press of the secondary key, the machine is waiting for the
\* secondary, and at most the timeout has elapsed since the most recent
\* press of the primary key; a press of the primary key while waiting
\* restarts the timer.
C13_TapActivatesWithinTimeoutOnly ==
    [][/\ TapActivated <=>
            /\ event'.key = secondary_key
            /\ event'.event_type = "KEY_PRESS"
            /\ tap_state = 1
            /\ now' - last_primary_press <= TAP_SEQUENCE_TIMEOUT
       /\ (/\ event'.key = primary_key
           /\ event'.event_type = "KEY_PRESS"
           /\ tap_state = 1)
          => /\ tap_state' = 1
             /\ sequence_start_time' = now']_vars

\* the secondary key was pressed exactly the timeout after the primary key
\* and the shortcut's press was published
C13_TapActivatedAtTimeout ==
    /\ event = [key |-> secondary_key, event_type |-> "KEY_PRESS"]
    /\ tap_state = 0
    /\ now - last_primary_press = TAP_SEQUENCE_TIMEOUT
    /\ Len(mainQueue) > 0
    /\ mainQueue[Len(mainQueue)].app = TapApp
    /\ mainQueue[Len(mainQueue)].kind = "press"

(* ------------------------------ C14 ------------------------------------ *)

\* the audio thread's step ends a capture: the stream is closed and the
\* recording handed on
Delivers == audio_pc = "captured" /\ audio_pc' = "delivered"

\* the frames 1..n
FramesUpTo(n) == [i \in 1..n |-> i]

\* C14: when a non-streaming recording completes, then if VAD is enabled and
\* no frame was classified as speech, or the captured duration is below
\* 200 ms, no audio chunk is pushed and audio_discarded(session_id) is
\* published; otherwise one audio chunk holding the whole buffer is pushed
\* to the owning app's audio queue and nothing is published; either way the
\* sentinel follows, and no other app's queue changes.
C14_NonStreamingPushOrDiscard ==
    [][(Delivers /\ ~is_streaming(context.app)) =>
        LET a == context.app
            sid == context.session_id
            frames == capture.frames_read
            discard == \/ use_vad(a) /\ ~capture.speech_detected
                       \/ frames * frame_size * 1000 < 200 * sample_rate
        IN /\ \A b \in Apps \ {a} : audio_queue'[b] = audio_queue[b]
           /\ IF discard
              THEN /\ audio_queue'[a] = Append(audio_queue[a], Sentinel)
                   /\ mainQueue' =
                        Append(mainQueue,
                               Event("audio_discarded", None, sid, None, None))
              ELSE /\ audio_queue'[a] =
                        audio_queue[a] \o
                        <<AudioChunk(a, sid, FramesUpTo(frames)), Sentinel>>
                   /\ mainQueue' = mainQueue]_vars

\* a recording has been discarded, and a later one of 200 ms or more was
\* pushed whole, followed by the sentinel
C14_DiscardedThenPushed ==
    /\ audio_pc = "delivered"
    /\ ~is_streaming(context.app)
    /\ \E i \in 1..Len(mainQueue) :
          /\ mainQueue[i].type = "audio_discarded"
          /\ mainQueue[i].session_id # context.session_id
    /\ LET q == audio_queue[context.app]
       IN /\ Len(q) >= 2
          /\ q[Len(q)] = Sentinel
          /\ q[Len(q) - 1] =
               AudioChunk(context.app, context.session_id,
                          FramesUpTo(capture.frames_read))
          /\ capture.frames_read * FrameMs >= 200

(* ------------------------------ C15 ------------------------------------ *)

\* the audio control thread holds the request of the session: it has
\* dequeued it and not yet put its sentinel
InHand(sid) ==
    /\ context.session_id = sid
    /\ audio_pc \in {"dequeued", "capturing", "captured"}

\* the audio control thread has dequeued the request of the session and is
\* done with it
Finished(sid) ==
    /\ sid \in DOMAIN session_app_map
    /\ \A i \in 1..Len(recording_queue) : recording_queue[i].session_id # sid
    /\ ~InHand(sid)

RECURSIVE SamplesOf(_, _)
SamplesOf(q, sid) ==
    IF q = <<>> THEN <<>>
    ELSE (IF Head(q).kind = "chunk" /\ Head(q).session_id = sid
          THEN Head(q).audio_chunk ELSE <<>>) \o SamplesOf(Tail(q), sid)

\* C16: in streaming mode with chunk size C, after any number of frames of
\* a capture, every chunk pushed has length exactly C, the pushed chunks of
\* the capture in push order followed by the remaining buffer are the
\* captured samples in capture order, none twice and none missing, and the
\* remaining buffer holds fewer than C samples.
C16_StreamingChunksPartitionTheCapture ==
    /\ \A a \in Apps : \A i \in 1..Len(audio_queue[a]) :
          (is_streaming(a) /\ audio_queue[a][i].kind = "chunk")
             => Len(audio_queue[a][i].audio_chunk) = streaming_chunk_size
    /\ (audio_pc \in {"capturing", "captured"} /\ is_streaming(context.app))
          => /\ SamplesOf(audio_queue[context.app], context.session_id)
                   \o capture.recording
                 = FramesUpTo(capture.frames_read * stream_frame_size)
             /\ Len(capture.recording) < streaming_chunk_size

\* a streaming capture whose chunk boundaries fall inside frames has pushed
\* two chunks or more and holds a remainder
C16_ChunksCutAcrossFrames ==
    /\ audio_pc = "capturing"
    /\ is_streaming(context.app)
    /\ streaming_chunk_size = 3
    /\ stream_frame_size = 2
    /\ Len(audio_queue[context.app]) >= 2
    /\ Len(capture.recording) = 2

(* ------------------------------ C20 ------------------------------------ *)

\* C20: the audio control thread runs one capture at a time: at no time are
\* two input streams open, and it dequeues a recording request only when
\* every stream it opened has been closed and every request it dequeued
\* before has its sentinel on the owning app's audio queue.
C20_OneCaptureAtATime ==
    /\ [](open_streams <= 1)
    /\ [][(audio_pc' = "dequeued" /\ audio_pc # "dequeued") =>
            /\ open_streams = 0
            /\ \A a \in Apps :
                 Cardinality({i \in 1..Len(audio_queue[a]) :
                                 audio_queue[a][i] = Sentinel}) =
                 Cardinality({sid \in DOMAIN session_app_map :
                                 /\ session_app_map[sid] = a
                                 /\ \A i \in 1..Len(recording_queue) :
                                       recording_queue[i].session_id # sid})]_vars

\* the second request has been dequeued, after a capture that was
\* ended by its arrival, and its stream is open
C20_SecondCaptureRuns ==
    /\ audio_pc = "capturing"
    /\ open_streams = 1
    /\ capture.frames_read > 0
    /\ \E sid \in DOMAIN session_app_map :
          sid # context.session_id /\ Finished(sid)

(* ------------------------------ C17 ------------------------------------ *)

\* the places in the record of calls where a callback was called for the
\* n-th event emitted
CallsFor(n) == {i \in 1..Len(invoked) : invoked[i].event = n}

\* every callback of the n-th event emitted has been called and has returned
Dispatched(n) ==
    /\ n \in 1..Len(published)
    /\ \A i \in 1..Len(queued_signals) : queued_signals[i] # n
    /\ \A i \in 1..Len(dispatch_stack) : dispatch_stack[i].event # n

\* C17: for every event the bus delivers, the callbacks subscribed to its
\* type are called in subscription order, all of them once the delivery is
\* over, and every callback runs on the main thread, also for events emitted
\* by another thread, so that no two callbacks run concurrently.
C17_SubscriptionOrderOnMainThread ==
    /\ \A n \in 1..Len(published) :
          /\ \A i \in CallsFor(n) :
                invoked[i].callback =
                   Subscribers[published[n]]
                              [Cardinality({j \in CallsFor(n) : j <= i})]
          /\ Cardinality(CallsFor(n)) <= Len(Subscribers[published[n]])
          /\ Dispatched(n) =>
                Cardinality(CallsFor(n)) = Len(Subscribers[published[n]])
    /\ \A i \in 1..Len(invoked) : invoked[i].thread = "main"
    /\ \A i \in 1..Len(dispatch_stack) : dispatch_stack[i].thread = "main"

\* an event that the worker thread emitted has been delivered to the
\* callbacks of both apps
C17_WorkerEventDelivered ==
    \E n \in 1..Len(published) :
        /\ published[n] = "raw_transcription_result"
        /\ Dispatched(n)
        /\ Cardinality(CallsFor(n)) = Len(AppOrder)

(* ------------------------------ C18 ------------------------------------ *)

\* C18: events are delivered in the order they were published: of any two
\* events, every callback of the one emitted first has been called before
\* any callback of the other is.
C18_DeliveredInPublishOrder ==
    \A i \in 1..Len(invoked) :
        \A n \in 1..(invoked[i].event - 1) :
            Cardinality({j \in CallsFor(n) : j < i}) =
               Len(Subscribers[published[n]])

(* ------------------------------ C19 ------------------------------------ *)

\* C19: an event that a callback emits is delivered only after the delivery
\* under way has called all its callbacks: no _process_event call runs
\* inside another.
C19_NoNestedDispatch ==
    /\ Len(dispatch_stack) <= 1
    /\ \A i \in 1..Len(invoked) : invoked[i].depth = 1

(* ------------------------------ C21 ------------------------------------ *)

\* C21: a sentinel that stop_recording enqueued ends only the capture loop
\* of the session it was enqueued for: when a capture loop finds a sentinel
\* on the recording queue, the app of the running capture has been stopped
\* (stop_recording has taken it out of Recording for that session).
C21_SentinelEndsOwnCapture ==
    [][(/\ audio_pc = "capturing"
        /\ audio_pc' = "captured"
        /\ recording_queue # <<>>
        /\ Head(recording_queue) = Sentinel)
       => ~(/\ app_state[context.app] = "RECORDING"
            /\ app_session_id[context.app] = context.session_id)]_vars

(* ------------------------------ C22 ------------------------------------ *)

\* a worker thread that is not running: never started, or ended
NotRunning(pc) == pc \in {"none", "exited", "dead"}

SkippedResultArrives(a) ==
    /\ mainQueue # <<>>
    /\ Head(mainQueue).type = "raw_transcription_result"
    /\ Head(mainQueue).kind \in {"error", "bad"}
    /\ Head(mainQueue).session_id = app_session_id[a]

\* C23: when a raw transcription result for an App's current session carries
\* an error or is judged low-quality, handling it leaves the App Idle with no
\* session id, puts nothing on an inference queue, does not signal an
\* inference worker, and emits inferencing_skipped with the app's name last;
\* and from then on the App is never Inferencing for that session.
C23_BadResultSkipsInference ==
    /\ [][\A a \in Apps :
            (SkippedResultArrives(a) /\ mainQueue' = Tail(mainQueue))
            => LET emits == raw_transcription_emits(MainState, a, Head(mainQueue))
               IN /\ app_state'[a] = "IDLE"
                  /\ app_session_id'[a] = None
                  /\ inference_queue' = inference_queue
                  /\ llm_event' = llm_event
                  /\ llm_session_id' = llm_session_id
                  /\ emits # <<>>
                  /\ emits[Len(emits)] =
                        [type |-> "inferencing_skipped", arg |-> a]]_vars
    /\ \A a \in Apps : \A sid \in {UuidPool[i] : i \in 1..Len(UuidPool)} :
          []((/\ SkippedResultArrives(a)
              /\ app_session_id[a] = sid
              /\ app_state[a] # "INFERENCING")
             => [](~(app_state[a] = "INFERENCING" /\ app_session_id[a] = sid)))

\* a low-quality result of an app's own session is about to be handled while
\* the app is Transcribing that session
C23_LowQualityResultArrives ==
    \E a \in Apps :
        /\ SkippedResultArrives(a)
        /\ Head(mainQueue).kind = "bad"
        /\ Head(mainQueue).of = app_session_id[a]
        /\ app_state[a] = "TRANSCRIBING"

(* ------------------------------ C24 ------------------------------------ *)

\* punctuation characters
Punctuation == {".", "!", "?", ",", ";", ":", "-"}

\* the claim's test of a text
LowQuality(text) ==
    LET cleaned == lower(strip(text))
        words == split(cleaned)
        unique == {words[i] : i \in 1..Len(words)}
        fillers == {i \in 1..Len(words) : words[i] \in filler_words}
    IN \/ cleaned = <<>>
       \/ \A i \in 1..Len(cleaned) : cleaned[i] \in Punctuation
       \/ Len(words) >= 3 /\ 10 * Cardinality(unique) < 4 * Len(words)
       \/ 2 * Cardinality(fillers) > Len(words)

\* C24: is_bad_transcription flags a text if and only if, trimmed and in
\* lower case, it is empty, or consists of punctuation characters only, or
\* has at least 3 words of which fewer than 0.4 are distinct, or more than
\* half of its words are filler words; "..." and "um um um so" are flagged
\* and "please schedule the meeting" is not.
C24_FlaggedIffLowQuality ==
    bad_result.called =>
        /\ bad_result.is_bad <=> LowQuality(transcription)
        /\ transcription = <<".", ".", ".">> => bad_result.is_bad
        /\ transcription = <<"u", "m", " ", "u", "m", " ", "u", "m", " ", "s", "o">>
              => bad_result.is_bad
        /\ Len(transcription) = 27 => ~bad_result.is_bad

(* ------------------------------ C25 ------------------------------------ *)

\* stop() of app a's transcription worker has returned
TornDown(a) == tm_stop_event[a] /\ ~tm_thread[a]

\* the audio chunks on an app's audio queue
Chunks(q) == Cardinality({i \in 1..Len(q) : q[i].kind = "chunk"})

\* the recording requests for app a on the recording queue
RequestsFor(q, a) ==
    Cardinality({i \in 1..Len(q) : q[i].kind = "context" /\ q[i].app = a})

\* C25: cleanup stops a worker only after AudioManager.stop and cleanup have
\* returned, and stops the input listeners only after every app's worker
\* threads have been stopped and have ended; and once an app's worker has
\* been torn down, no audio chunk is put on that app's audio queue and no
\* recording request for that app on the recording queue.
C25_NothingQueuedForTornDownWorker ==
    [][/\ \A a \in Apps :
            (\/ ~tm_stop_event[a] /\ tm_stop_event'[a]
             \/ ~llm_stop_event[a] /\ llm_stop_event'[a])
            => ctl_pc \in {"app_cleanup", "tm_join"}
       /\ (keyboard_listener /\ ~keyboard_listener')
            => \A a \in Apps :
                  /\ tm_stop_event[a] /\ ~tm_thread[a] /\ NotRunning(tm_pc[a])
                  /\ llm_stop_event[a] /\ ~llm_thread[a] /\ NotRunning(llm_pc[a])
       /\ \A a \in Apps :
            TornDown(a) =>
              /\ Chunks(audio_queue'[a]) <= Chunks(audio_queue[a])
              /\ RequestsFor(recording_queue', a)
                    <= RequestsFor(recording_queue, a)]_vars

(* ------------------------------ C26 ------------------------------------ *)

\* the capture loop that has just ended was ended by the VAD: speech had been
\* detected and the silent frames since exceed the threshold
EndedByVAD ==
    /\ use_vad(context.app)
    /\ capture.speech_detected
    /\ capture.silent_frame_count > silence_frames

\* the audio thread emits recording_stopped in this step
EmitsRecordingStopped ==
    /\ audio_pc = "delivered"
    /\ Len(mainQueue') > Len(mainQueue)
    /\ mainQueue'[Len(mainQueue')].type = "recording_stopped"

\* C26: the audio engine emits recording_stopped for a recording only when
\* the capture loop was ended by the VAD's silence detection, not when it was
\* ended by a stop_recording sentinel, a newly queued request or engine stop.
C26_RecordingStoppedOnlyAfterVAD ==
    [][EmitsRecordingStopped => EndedByVAD]_vars

(* ------------------------------ C27 ------------------------------------ *)

\* the sample count of a frame of ms milliseconds
SamplesOfMs(ms) == (sample_rate * ms) \div 1000

\* the frame durations, of 30, 20 and 10 ms, whose frame divides the chunk
DividingDurations(chunk_size) ==
    {ms \in {10, 20, 30} : chunk_size % SamplesOfMs(ms) = 0}

\* the longest of them
LongestDividing(chunk_size) ==
    CHOOSE ms \in DividingDurations(chunk_size) :
        \A other \in DividingDurations(chunk_size) : other <= ms

\* C27 as stated: in streaming mode the frame size evenly divides the
\* streaming chunk size and is the frame of the longest of 30, 20 and 10 ms
\* that divides it, or the 10 ms frame when none divides; in non-streaming
\* mode it is the 30 ms frame.
C27_FrameDividesChunk ==
    audio_pc = "configured" =>
        IF is_streaming(context.app)
        THEN /\ streaming_chunk_size % stream_frame_size = 0
             /\ stream_frame_size =
                  IF DividingDurations(streaming_chunk_size) # {}
                  THEN SamplesOfMs(LongestDividing(streaming_chunk_size))
                  ELSE SamplesOfMs(10)
        ELSE stream_frame_size = SamplesOfMs(30)

\* C27 amended: in streaming mode the frame size is the frame of the longest
\* of 30, 20 and 10 ms that evenly divides the streaming chunk size; when
\* none divides, it is the 10 ms frame, which does not divide the chunk size;
\* in non-streaming mode it is the 30 ms frame.
C27_LongestDividingFrameOrTenMs ==
    audio_pc = "configured" =>
        IF is_streaming(context.app)
        THEN IF DividingDurations(streaming_chunk_size) # {}
             THEN /\ stream_frame_size =
                       SamplesOfMs(LongestDividing(streaming_chunk_size))
                  /\ streaming_chunk_size % stream_frame_size = 0
             ELSE /\ stream_frame_size = SamplesOfMs(10)
                  /\ streaming_chunk_size % stream_frame_size # 0
        ELSE stream_frame_size = SamplesOfMs(30)

\* a streaming app's frame size has been computed from a chunk size that the
\* 20 ms frame divides and the 30 ms frame does not
C27_TwentyMsFrameChosen ==
    /\ audio_pc = "configured"
    /\ is_streaming(context.app)
    /\ streaming_chunk_size = 640
    /\ stream_frame_size = 320

(* ------------------------------ C28 ------------------------------------ *)

\* the frames up to the n-th that the VAD is asked about and calls speech
SpeechFrames(n) ==
    {j \in (InitialFramesToSkip + 1)..n : vad_is_speech[j]}

\* at the n-th frame a speech frame has been seen, after the skipped frames,
\* and the silent frames since the last one exceed the threshold
SilenceAfterSpeech(n) ==
    /\ SpeechFrames(n) # {}
    /\ \E last \in SpeechFrames(n) :
          /\ \A j \in SpeechFrames(n) : j <= last
          /\ n - last > silence_frames

\* C28: with VAD enabled, whatever the VAD answers frame by frame, the
\* capture loop ends by VAD exactly at the first frame, after the initial
\* skipped frames, at which a speech frame has been seen and the consecutive
\* silent frames since the last speech frame exceed silence_frames. The
\* answers for the skipped frames play no part, and the loop does not end by
\* VAD before the first speech frame.
C28_VadEndsAtFirstLongSilence ==
    /\ [][(/\ audio_pc = "capturing"
           /\ use_vad(context.app)
           /\ capture'.frames_read = capture.frames_read + 1)
          => (audio_pc' = "captured"
                <=> SilenceAfterSpeech(capture'.frames_read))]_vars
    /\ []((audio_pc = "capturing" /\ use_vad(context.app))
          => \A n \in 1..capture.frames_read : ~SilenceAfterSpeech(n))

\* the VAD, which would have called the skipped frames speech, called the
\* first frame after them speech and the next two silence, and the loop has
\* ended at the second of these
C28_EndedAfterTwoSilentFrames ==
    /\ audio_pc = "captured"
    /\ use_vad(context.app)
    /\ \A n \in 1..InitialFramesToSkip : vad_is_speech[n]
    /\ vad_is_speech[InitialFramesToSkip + 1]
    /\ ~vad_is_speech[InitialFramesToSkip + 2]
    /\ ~vad_is_speech[InitialFramesToSkip + 3]
    /\ capture.frames_read = InitialFramesToSkip + 3
    /\ recording_queue = <<>>

(* ------------------------------ C29 ------------------------------------ *)

\* C29: once AudioManager.stop has set the engine state to STOPPED, the state
\* stays STOPPED: the control thread never overwrites it with RECORDING or
\* IDLE, wherever the thread was when stop ran. (The claim's other half, that
\* the control thread then exits, needs this one: the thread's loop ends only
\* when it reads STOPPED.)
C29_StoppedStaysStopped ==
    [][audio_state = "STOPPED" => audio_state' = "STOPPED"]_vars

(* ------------------------------ C30 ------------------------------------ *)

\* TranscriptionManager.stop has set its two events for app a's worker and
\* waits in join
TMStopCalled(a) ==
    ctl_pc = "tm_join" /\ AppOrder[ctl_app] = a /\ tm_thread[a]

\* LLMManager.stop has set its two events for app a's worker and waits in join
LLMStopCalled(a) ==
    ctl_pc = "llm_join" /\ AppOrder[ctl_app] = a /\ llm_thread[a]

\* C30: under fair scheduling, with backend calls that return (or raise),
\* after stop() is called on a TranscriptionManager or an LLMManager the
\* worker thread eventually ends and stop() returns, wherever the worker was:
\* blocked in wait(), between wait() and clear(), or within a drain cycle.
C30_StopEndsWorkerAndReturns ==
    /\ \A a \in Apps :
          TMStopCalled(a) ~> (join(tm_pc[a]) /\ ~tm_thread[a])
    /\ \A a \in Apps :
          LLMStopCalled(a) ~> (join(llm_pc[a]) /\ ~llm_thread[a])

\* stop() is called on a transcription worker that is within a backend call
C30_StopDuringBackendCall ==
    \E a \in Apps : TMStopCalled(a) /\ tm_pc[a] = "transcribing"

\* stop() is called on a worker that is blocked in wait()
C30_StopWhileWaiting ==
    \E a \in Apps : TMStopCalled(a) /\ tm_pc[a] = "wait"

\* stop() is called on a worker that is between wait() and clear()
C30_StopBetweenWaitAndClear ==
    \E a \in Apps : TMStopCalled(a) /\ tm_pc[a] = "woken"

\* stop() is called on an LLM worker that is handling a message
C30_StopDuringInference ==
    \E a \in Apps : LLMStopCalled(a) /\ llm_pc[a] \in {"drain", "inferring"}

(* ------------------------------ C31 ------------------------------------ *)

\* the recording of app a's session sid is still to be handed over: its
\* request is queued, or the audio thread is recording it
RecordingAhead(a, sid) ==
    \/ \E i \in 1..Len(recording_queue) :
          recording_queue[i] = RecordingContext(a, sid)
    \/ /\ context = RecordingContext(a, sid)
       /\ audio_pc \in {"dequeued", "capturing", "captured"}

\* app a's transcription worker takes a sentinel, which ends its drain cycle
TakesSentinel(a) ==
    /\ tm_pc[a] = "drain"
    /\ ~tm_stop_event[a]
    /\ audio_queue[a] # <<>>
    /\ Head(audio_queue[a]) = Sentinel
    /\ audio_queue'[a] = Tail(audio_queue[a])

\* C31: while no stop is requested, the chunks pushed to an app's audio queue
\* are taken by the app's transcription worker once each, in push order, and
\* a drain cycle consumes the chunks and the sentinel of one recording
\* session: a sentinel left by an earlier session does not end the drain
\* cycle of a later session while that session's recording is still to come
\* (the cycle is the later session's when start_transcription has made that
\* session the worker's current one and no further wake-up is pending).
C31_OneSessionPerDrainCycle ==
    [][\A a \in Apps :
          /\ (/\ tm_pc[a] = "drain" /\ tm_pc'[a] = "transcribing")
                => /\ tm_item'[a] = Head(audio_queue[a])
                   /\ audio_queue'[a] = Tail(audio_queue[a])
          /\ (TakesSentinel(a) /\ ~transcribe_event[a])
                => ~RecordingAhead(a, tm_session_id[a])]_vars

(* ------------------------------ C32 ------------------------------------ *)

\* C32: a streaming inference of one user message publishes exactly one
\* <start_of_stream> marker, then the backend's fragments in order, then one
\* <end_of_stream> marker, whatever the fragments: none at all, an empty
\* first fragment, or a backend that fails midway.
C32_StreamIsBracketed ==
    completion_stream.consumed
       => llm_emitted = <<StartOfStream>> \o completion_stream.chunks
                        \o <<EndOfStream>>

(* ------------------------------ C33 ------------------------------------ *)

\* the place of the last marker the handler was given before its i-th
\* result; 0 when there is none
LastMarkerBefore(i) ==
    LET markers == {j \in 1..(i - 1) : handled[j] \in {StartOfStream, EndOfStream}}
    IN IF markers = {} THEN 0
       ELSE CHOOSE j \in markers : \A k \in markers : k <= j

\* the texts handled[from..to], concatenated
RECURSIVE Concatenated(_, _)
Concatenated(from, to) ==
    IF from > to THEN ""
    ELSE handled[from] \o Concatenated(from + 1, to)

\* C33: in clipboard or notification mode, the text the handler delivers at
\* an <end_of_stream> marker is the concatenation, in order, of the fragments
\* received for that stream only: nothing accumulated before the stream's
\* <start_of_stream> is part of it, also when the stream before it had no
\* <end_of_stream>.
C33_DeliversThisStreamOnly ==
    \A n \in 1..Len(delivered) :
       (/\ delivered[n].sink \in {"to_clipboard", "show_balloon"}
        /\ handled[delivered[n].at] = EndOfStream)
          => delivered[n].text =
               Concatenated(LastMarkerBefore(delivered[n].at) + 1,
                            delivered[n].at - 1)

(* ------------------------------ C34 ------------------------------------ *)

SessionIds == {UuidPool[i] : i \in 1..Len(UuidPool)}

\* the apps that this step takes from Recording, Transcribing or Inferencing
\* to Idle
Finishing ==
    {a \in Apps : /\ app_state[a] \in {"RECORDING", "TRANSCRIBING", "INFERENCING"}
                  /\ app_state'[a] = "IDLE"}

\* how many times inferencing_complete was published with session id sid
TimesCompleted(sid) ==
    Cardinality({i \in 1..Len(completed) : completed[i] = sid})

\* finish_inferencing from Recording, Transcribing or Inferencing clears the
\* session id and publishes one inferencing_complete with the id that was
\* current; nothing else publishes one
C34_FinishPublishesOldSession ==
    [][/\ \A a \in Finishing : app_session_id'[a] = None
       /\ Len(completed') = Len(completed) + Cardinality(Finishing)
       /\ \A a \in Finishing :
             \E i \in (Len(completed) + 1)..Len(completed') :
                completed'[i] = app_session_id[a]]_vars

\* no session has inferencing_complete published twice
C34_AtMostOncePerSession ==
    \A sid \in SessionIds : TimesCompleted(sid) <= 1

\* C34: finish_inferencing called in Recording, Transcribing or Inferencing
\* sets the state to Idle, clears current_session_id and publishes one
\* inferencing_complete carrying the session id that was current; called in
\* Idle it publishes none; so exactly one inferencing_complete is published
\* for every started session: never two, and eventually one.
C34_OneCompletePerSession ==
    /\ C34_FinishPublishesOldSession
    /\ []C34_AtMostOncePerSession
    /\ \A sid \in SessionIds :
          (sid \in DOMAIN session_app_map) ~> (TimesCompleted(sid) = 1)

(* ------------------------------ C35 ------------------------------------ *)

\* the presses of the tap-sequence shortcut published so far
TapPresses ==
    {i \in 1..Len(mainQueue) :
        /\ mainQueue[i].type = "shortcut_triggered"
        /\ mainQueue[i].app = TapApp
        /\ mainQueue[i].kind = "press"}

\* C35: for a tap-sequence shortcut no release activation is ever emitted;
\* after every activation, and once the timeout has passed, the machine is
\* back in state 0 (waiting for the primary key), which only a press of the
\* primary key leaves; so a further press of the secondary key without a new
\* press of the primary key does not activate.
C35_TapNeedsNewPrimaryPress ==
    [][/\ \A i \in 1..Len(Emitted) :
             Emitted[i].app = TapApp => Emitted[i].kind = "press"
       /\ TapActivated => (tap_state = 1 /\ tap_state' = 0)
       /\ tap_state' = 1 => now' - sequence_start_time' <= TAP_SEQUENCE_TIMEOUT
       /\ (tap_state = 0 /\ tap_state' = 1)
             => event' = [key |-> primary_key, event_type |-> "KEY_PRESS"]]_vars

\* the primary key, then the secondary key at the timeout (the sequence
\* activated), then the secondary key once more: no second activation
C35_SecondaryPressedAgain ==
    /\ input_count = 3
    /\ event = [key |-> secondary_key, event_type |-> "KEY_PRESS"]
    /\ now - last_primary_press = 2 * TAP_SEQUENCE_TIMEOUT
    /\ Cardinality(TapPresses) = 1
    /\ tap_state = 0

(* ------------------------------ C36 ------------------------------------ *)

\* the step is the main thread handling shortcut_triggered(a, kind)
HandlesShortcut(a, kind) ==
    /\ mainQueue # <<>>
    /\ Head(mainQueue).type = "shortcut_triggered"
    /\ Head(mainQueue).app = a
    /\ Head(mainQueue).kind = kind
    /\ mainQueue' = Tail(mainQueue)

\* C36: for an app whose configuration selects hold-to-record, a release
\* activation handled while the app is Recording stops the recording (the
\* app moves to Transcribing and the sentinel is put on the recording
\* queue), and a press handled while it is Recording does not stop it; for
\* an app configured with any other mode a release activation changes
\* nothing.
C36_HoldToRecordStopsOnRelease ==
    [][\A a \in Apps :
         /\ (/\ ConfigRecordingMode(a) = "HOLD_TO_RECORD"
             /\ app_state[a] = "RECORDING"
             /\ HandlesShortcut(a, "release"))
              => /\ app_state'[a] = "TRANSCRIBING"
                 /\ recording_queue' = Append(recording_queue, Sentinel)
         /\ (/\ ConfigRecordingMode(a) = "HOLD_TO_RECORD"
             /\ app_state[a] = "RECORDING"
             /\ HandlesShortcut(a, "press"))
              => /\ app_state'[a] = "RECORDING"
                 /\ recording_queue' = recording_queue
         /\ (/\ ConfigRecordingMode(a) # "HOLD_TO_RECORD"
             /\ HandlesShortcut(a, "release"))
              => UNCHANGED <<appVars, ctlVars, recording_queue>>]_vars

(* ------------------------------ C37 ------------------------------------ *)

\* the step is the main thread handling an audio_discarded or
\* recording_stopped event of a session of app a that is not a's current one
HandlesStaleSessionEvent(a) ==
    /\ mainQueue # <<>>
    /\ Head(mainQueue).type \in {"audio_discarded", "recording_stopped"}
    /\ get_app_for_session(MainState, Head(mainQueue).session_id) = a
    /\ app_session_id[a] # Head(mainQueue).session_id
    /\ mainQueue' = Tail(mainQueue)

\* C37: an audio_discarded or recording_stopped event whose session id is
\* not the owning app's current session id changes nothing: the app's state
\* and session stay as they are and nothing is put on the recording queue.
C37_StaleSessionEventIgnored ==
    [][\A a \in Apps :
         HandlesStaleSessionEvent(a)
            => UNCHANGED <<appVars, ctlVars, recording_queue>>]_vars

(* ------------------------------ C38 ------------------------------------ *)

\* C38: a press activation handled for an app that is Transcribing or
\* Inferencing, or for an Idle app while the audio manager reports that it
\* is recording, changes no app's state, draws no session id, adds nothing
\* to the session-to-app map and puts nothing on the recording queue.
C38_PressIgnoredWhenBusy ==
    [][\A a \in Apps :
         (/\ HandlesShortcut(a, "press")
          /\ \/ app_state[a] \in {"TRANSCRIBING", "INFERENCING"}
             \/ app_state[a] = "IDLE" /\ is_recording)
            => UNCHANGED <<appVars, ctlVars, recording_queue>>]_vars

\* both shortcuts were pressed and both presses handled, the second app's
\* first, and the first app's while the audio manager was recording: it
\* started no session
C38_PressDuringOtherRecording ==
    /\ input_count = 2
    /\ chord_active[AppOrder[1]]
    /\ mainQueue = <<>>
    /\ audio_state = "RECORDING"
    /\ app_state = [a \in Apps |-> IF a = AppOrder[1] THEN "IDLE" ELSE "RECORDING"]
    /\ uuid_count = 1
    /\ DOMAIN session_app_map = {uuid4(0)}

(* ------------------------------ C39 ------------------------------------ *)

\* ApplicationController.cleanup is running
InCleanup ==
    ctl_pc \in {"cleanup", "audio_join", "app_cleanup", "tm_join", "llm_join",
                "input_cleanup"}

\* ApplicationController.cleanup has returned
CleanedUp == ctl_pc \in {"closed", "closed_again"}

\* C39: a second call of cleanup right after the first changes nothing; a
\* cleanup started while a session is in progress starts no new recording;
\* and when cleanup has returned no audio thread, worker thread or input
\* listener is running.
C39_CleanupIdempotentAndSafe ==
    /\ [][(ctl_pc = "closed" /\ ctl_pc' = "closed_again")
            => UNCHANGED <<appVars, audio_queue, ctlVars, audioVars, tmVars,
                           llmVars, mainQueue, listening, keyboard_listener,
                           tm_thread, llm_thread, published>>]_vars
    /\ [][(InCleanup /\ ctl_pc' # ctl_pc)
            => /\ uuid_count' = uuid_count
               /\ \A i \in 1..Len(recording_queue') :
                     recording_queue'[i].kind = "context"
                        => /\ i <= Len(recording_queue)
                           /\ recording_queue[i] = recording_queue'[i]]_vars
    /\ [](CleanedUp
            => /\ NotRunning(audio_pc)
               /\ \A a \in Apps : NotRunning(tm_pc[a]) /\ NotRunning(llm_pc[a])
               /\ ~keyboard_listener)

(* ------------------------------ C40 ------------------------------------ *)

\* the event types an App subscribes to
AppEventTypes ==
    {"raw_transcription_result", "transcription_finished",
     "inferencing_result", "inferencing_finished"}

\* App.__init__: all the subscriptions of app a, in order
AppInitSubscriptions(a) ==
    AppSubscriptions(a) \o
    <<[event_type |-> "inferencing_result",
       callback |-> Callback(a, "handle_inferencing_result")],
      [event_type |-> "inferencing_finished",
       callback |-> Callback(a, "handle_inferencing_finished")]>>

\* load_active_apps: the subscribe calls of the apps from the i-th on
RECURSIVE AppSubscribeCalls(_)
AppSubscribeCalls(i) ==
    IF i > Len(AppOrder) THEN <<>>
    ELSE AppInitSubscriptions(AppOrder[i]) \o AppSubscribeCalls(i + 1)

\* EventBus.unsubscribe
unsubscribe(subscribers, event_type, callback) ==
    IF event_type \in DOMAIN subscribers
    THEN [subscribers EXCEPT
            ![event_type] = SelectSeq(@, LAMBDA cb : cb # callback)]
    ELSE subscribers

\* App.cleanup: its calls of unsubscribe
cleanup_unsubscribe(subscribers, a) ==
    unsubscribe(
        unsubscribe(subscribers, "raw_transcription_result",
                    Callback(a, "handle_raw_transcription")),
        "transcription_finished", Callback(a, "handle_transcription_finished"))

\* an app is cleaned up when App.cleanup has reset its attributes
CleanedUpApp(a) == app_state[a] = None

\* the unsubscribe calls of the cleaned-up apps from the i-th on
RECURSIVE UnsubscribeCleanedUp(_, _)
UnsubscribeCleanedUp(subscribers, i) ==
    IF i > Len(AppOrder) THEN subscribers
    ELSE UnsubscribeCleanedUp(
             IF CleanedUpApp(AppOrder[i])
             THEN cleanup_unsubscribe(subscribers, AppOrder[i])
             ELSE subscribers,
             i + 1)

\* EventBus._subscribers for the apps' event types: what the apps subscribed
\* when they were constructed, less what the cleaned-up apps unsubscribed
AppSubscribers ==
    UnsubscribeCleanedUp(
        SubscribeAll([e \in AppEventTypes |-> <<>>], AppSubscribeCalls(1)), 1)

\* C40: after App.cleanup has returned none of that app's handlers is
\* subscribed on the event bus for any event type.
C40_CleanedUpAppUnsubscribed ==
    \A a \in Apps :
        CleanedUpApp(a) =>
            \A e \in AppEventTypes :
                \A i \in 1..Len(AppSubscribers[e]) :
                    AppSubscribers[e][i].owner # a

====
